---- MODULE Spec2Model ----
(***************************************************************************)
(* Model of the wake detector of whoop-cli (src/src/utils/wake.ts), of the *)
(* commands that drive it (src/unnamed/part_007), of the API client        *)
(* (src/unnamed/part_006) and the error handling (src/src/utils/errors.ts) *)
(* behind the commands, of the date utilities (src/unnamed/part_009), and  *)
(* of authentication: token storage (src/unnamed/part_008), the OAuth flow *)
(* (src/unnamed/part_007) and its callback server (src/src/auth/server.ts).*)
(*                                                                         *)
(* Specifications:                                                         *)
(*  Spec      iterations of the seeding loop, then one call of checkWake;  *)
(*  SpecEval  one call of checkWake on a history argument;                 *)
(*  SpecRace  two processes that call addToHistory at the same time;       *)
(*  SpecCli   one run of a command on the responses of the API;            *)
(*  SpecLoad  as Spec, on a history file that is absent or damaged;        *)
(*  SpecRuns  successive calls of checkWake on the persisted store;        *)
(*  SpecPages fetchAll, one loop pass at a time;                           *)
(*  SpecDate  one run of a command with a --date option;                   *)
(*  SpecAuth  auth actions and a data command on the token file;           *)
(*  SpecLogin login step by step with its callback server, and            *)
(*            SpecLoginFair, which adds that a timer that is set fires;    *)
(*  SpecFetch fetchData with one request per type in flight.               *)
(*                                                                         *)
(* Representation of the JavaScript values:                                *)
(*  - a calendar date "YYYY-MM-DD" is its day number (string order of ISO  *)
(*    dates is day order); a timestamp is the pair <<date, UTC hour>>;     *)
(*  - an optional property is a sequence: <<>> when absent, <<v>> when     *)
(*    present;                                                             *)
(*  - durationHours is counted in hundredths of an hour; the values that   *)
(*    the code rounds to one decimal (avgEndHour, avgDuration, minDuration,*)
(*    avgCycles, durationMin, sleep.durationHours) are counted in tenths;  *)
(*  - a timestamp that is present is a valid ISO timestamp and every       *)
(*    number is finite, so JSON.stringify / JSON.parse return the records  *)
(*    they were given;                                                     *)
(*  - Math.round is exact rounding, halves up. The doubles of the code     *)
(*    agree with it except where a value lies exactly on a half: for       *)
(*    avgDuration * 0.7 * 10 the cases are listed (SevenTenthsBelowHalf),  *)
(*    and the durations of the inputs are chosen so that the mean of up to *)
(*    ROLLING_WINDOW of them never lies on a half.                         *)
(*  - the detail text of a check and the creation of the configuration    *)
(*    directory are left out.                                              *)
(***************************************************************************)
EXTENDS Integers, Sequences, FiniteSets, TLC

VARIABLES
  file,    \* HISTORY_FILE: [exists, content, data], data the stored list of records
  prev,    \* HISTORY_FILE as it was when the last operation began
  call,    \* the last operation and its arguments; in SpecRace the two calls of
           \* addToHistory in progress, each with its position and what it read
  ret,     \* what the last operation returned, threw or printed
  ever,    \* date -> the record addToHistory was last called with (<<>>: never)
  tokenFile \* TOKEN_FILE: [exists, content, data], data the stored OAuthTokens

vars == <<file, prev, call, ret, ever, tokenFile>>

-----------------------------------------------------------------------------
(* Program constants *)

HISTORY_DAYS == 14
ROLLING_WINDOW == 7
MilliPerHour == 3600000
\* for (let i = 13; i >= 0; i--): the days the seeding loop runs over
SEED_DAYS == 14
\* enum ExitCode
SUCCESS == 0
GENERAL_ERROR == 1
AUTH_ERROR == 2
RATE_LIMIT == 3

(* Bounds of the model *)

NumDates == 16
OverrideLen == 9

EvalLen == 8
Dates == 1..NumDates
MilliPerCentiHour == MilliPerHour \div 100

-----------------------------------------------------------------------------
(* JavaScript built-ins used by wake.ts *)

\* Math.round(n / d) for n >= 0, d > 0: halves round up
Round(n, d) == (2 * n + d) \div (2 * d)

\* x || 0 for an optional number
OrZero(x) == IF x = <<>> THEN 0 ELSE x[1]

\* the avgDuration values a (in tenths) for which the double a/10 * 0.7 * 10 lies
\* just below the half that 7a/10 lies on, so that Math.round rounds it down
SevenTenthsBelowHalf == {15, 35, 85, 115, 145, 165, 225}

\* Math.round(avgDuration * 0.7 * 10), avgDuration = a / 10
RoundSevenTenths(a) == IF a \in SevenTenthsBelowHalf THEN Round(7 * a, 10) - 1 ELSE Round(7 * a, 10)

\* s.slice(-n)
SliceLast(s, n) == IF Len(s) <= n THEN s ELSE SubSeq(s, Len(s) - n + 1, Len(s))

\* history.findIndex(h => h.date === d); 0 stands for -1
FindIndex(history, d) ==
  LET hits == {i \in 1..Len(history) : history[i].date = d}
  IN IF hits = {} THEN 0 ELSE CHOOSE i \in hits : \A j \in hits : i <= j

\* history.filter(h => h.date !== d)
FilterNotDate(history, d) == SelectSeq(history, LAMBDA h : h.date # d)

\* a sort that leaves the list as it is
InsertLast(sorted, r) == Append(sorted, r)

\* history.sort((a, b) => a.date.localeCompare(b.date)): a stable sort
InsertAfterEqual(sorted, r) ==
  LET before == {i \in 1..Len(sorted) : sorted[i].date <= r.date}
      k == IF before = {} THEN 0 ELSE CHOOSE i \in before : \A j \in before : j <= i
  IN SubSeq(sorted, 1, k) \o <<r>> \o SubSeq(sorted, k + 1, Len(sorted))

RECURSIVE SortByDate(_)
SortByDate(history) ==
  IF history = <<>> THEN <<>>
  ELSE InsertAfterEqual(SortByDate(SubSeq(history, 1, Len(history) - 1)),
                        history[Len(history)])

RECURSIVE Sum(_, _)
Sum(s, field) == IF s = <<>> THEN 0 ELSE Head(s)[field] + Sum(Tail(s), field)

Min(s, field) ==
  CHOOSE m \in {s[i][field] : i \in 1..Len(s)} : \A i \in 1..Len(s) : m <= s[i][field]

Max2(a, b) == IF a >= b THEN a ELSE b

-----------------------------------------------------------------------------
(* History store *)

\* HISTORY_FILE is [exists, content, data]. content tells what the file holds:
\*   "list"       JSON text of an array, whose items are data;
\*   "object"     JSON text of a value that is not an array, such as {} or null;
\*   "garbled"    text that JSON.parse rejects;
\*   "unreadable" a file that readFileSync cannot read.
NoFile == [exists |-> FALSE, content |-> "none", data |-> <<>>]
ListFile(history) == [exists |-> TRUE, content |-> "list", data |-> history]
ObjectFile == [exists |-> TRUE, content |-> "object", data |-> <<>>]
GarbledFile == [exists |-> TRUE, content |-> "garbled", data |-> <<>>]
UnreadableFile == [exists |-> TRUE, content |-> "unreadable", data |-> <<>>]

\* whether the value loadHistory returns is an array: it returns what JSON.parse
\* returns, without a check. Reading .filter or .findIndex of another value
\* and calling it is a TypeError.
loadedIsArray(f) == ~f.exists \/ f.content # "object"

\* the items of the value loadHistory returns: none when the file is absent and
\* when readFileSync or JSON.parse throws
loadHistory(f) ==
  IF ~f.exists THEN <<>>
  ELSE IF f.content \in {"unreadable", "garbled"} THEN <<>>
  ELSE f.data

\* saveHistory trimming with slice(0, HISTORY_DAYS)
saveHistoryFirst(history) ==
  ListFile(IF Len(history) <= HISTORY_DAYS THEN history ELSE SubSeq(history, 1, HISTORY_DAYS))

saveHistory(history) == ListFile(SliceLast(history, HISTORY_DAYS))

\* addToHistory without the findIndex branch: the record is always pushed
addToHistoryPush(f, record) ==
  saveHistory(SortByDate(Append(loadHistory(f), record)))

addToHistory(f, record) ==
  LET history == loadHistory(f)
      existing == FindIndex(history, record.date)
      updated == IF existing > 0
                 THEN [history EXCEPT ![existing] = record]
                 ELSE Append(history, record)
  IN saveHistory(SortByDate(updated))

-----------------------------------------------------------------------------
(* Parsing a WHOOP sleep session *)

parseSleepRecord(sleep) ==
  IF sleep.end = <<>> \/ sleep.score = <<>>
  THEN [kind |-> "null"]
  ELSE IF sleep.start = <<>> \/ sleep.score[1].stage_summary = <<>>
  THEN [kind |-> "TypeError"]
  ELSE LET stages == sleep.score[1].stage_summary[1]
       IN [kind |-> "record",
           record |->
             [date |-> sleep.start[1],
              endUtcHour |-> sleep.end[2],
              durationHours |-> OrZero(stages.total_in_bed_time_milli) \div MilliPerCentiHour,
              cycles |-> OrZero(stages.sleep_cycle_count),
              performance |-> OrZero(sleep.score[1].sleep_performance_percentage),
              efficiency |-> OrZero(sleep.score[1].sleep_efficiency_percentage)]]

-----------------------------------------------------------------------------
(* Rolling statistics *)

\* defaults of a later riser: minEndHour 14
defaultStatsLater ==
  [avgEndHour |-> 140, minEndHour |-> 14,
   avgDuration |-> 70, minDuration |-> 50,
   avgCycles |-> 40, minCycles |-> 3,
   avgPerformance |-> 80, minPerformance |-> 70,
   sampleSize |-> 0]

defaultStats ==
  [avgEndHour |-> 140, minEndHour |-> 13,
   avgDuration |-> 70, minDuration |-> 50,
   avgCycles |-> 40, minCycles |-> 3,
   avgPerformance |-> 80, minPerformance |-> 70,
   sampleSize |-> 0]

\* history.slice(0, ROLLING_WINDOW)
recentFirst(history) ==
  IF Len(history) <= ROLLING_WINDOW THEN history ELSE SubSeq(history, 1, ROLLING_WINDOW)

\* history.slice(-ROLLING_WINDOW)
recent(history) == SliceLast(history, ROLLING_WINDOW)

calculateRollingStats(history) ==
  LET window == recent(history)
      n == Len(window)
  IN IF n = 0
     THEN defaultStats
     ELSE [avgEndHour |-> Round(10 * Sum(window, "endUtcHour"), n),
           minEndHour |-> Min(window, "endUtcHour"),
           avgDuration |-> Round(Sum(window, "durationHours"), 10 * n),
           minDuration |-> Round(Min(window, "durationHours"), 10),
           avgCycles |-> Round(10 * Sum(window, "cycles"), n),
           minCycles |-> Min(window, "cycles"),
           avgPerformance |-> Round(Sum(window, "performance"), n),
           minPerformance |-> Min(window, "performance"),
           sampleSize |-> n]

-----------------------------------------------------------------------------
(* Wake detection *)

\* no filter: today's own entry stays in the history
historyWithToday(sleepHistory, date) == sleepHistory

\* sleepHistory.filter(h => h.date !== sleepRecord.date)
historyWithoutToday(sleepHistory, date) == FilterNotDate(sleepHistory, date)

\* cyclesMin without the floor of 2
thresholdsNoFloor(stats) ==
  [endHourMin |-> stats.minEndHour - 2,
   durationMin |-> RoundSevenTenths(stats.avgDuration),
   cyclesMin |-> stats.minCycles - 1,
   performanceMin |-> Round(3 * stats.avgPerformance, 4)]

\* endHourMin two hours after the earliest end hour instead of before it
thresholdsAfterEarliest(stats) ==
  [endHourMin |-> stats.minEndHour + 2,
   durationMin |-> RoundSevenTenths(stats.avgDuration),
   cyclesMin |-> Max2(stats.minCycles - 1, 2),
   performanceMin |-> Round(3 * stats.avgPerformance, 4)]

\* endHourMin four hours before the earliest end hour
thresholdsFourBefore(stats) ==
  [endHourMin |-> stats.minEndHour - 4,
   durationMin |-> RoundSevenTenths(stats.avgDuration),
   cyclesMin |-> Max2(stats.minCycles - 1, 2),
   performanceMin |-> Round(3 * stats.avgPerformance, 4)]

thresholdsOf(stats) ==
  [endHourMin |-> stats.minEndHour - 2,
   durationMin |-> RoundSevenTenths(stats.avgDuration),
   cyclesMin |-> Max2(stats.minCycles - 1, 2),
   performanceMin |-> Round(3 * stats.avgPerformance, 4)]

\* a failed check that still awards a point
CheckPartial(name, passed, points) ==
  [name |-> name, passed |-> passed, points |-> IF passed THEN points ELSE 1]

\* one entry of checks: the branch taken pushes its full points or 0
Check(name, passed, points) ==
  [name |-> name, passed |-> passed, points |-> IF passed THEN points ELSE 0]

\* score += points in the branch of a passed check
Gain(passed, points) == IF passed THEN points ELSE 0

\* sampleSize > 7 and sampleSize > 3
confidenceAbove(sampleSize) ==
  IF sampleSize > 7 THEN "high" ELSE IF sampleSize > 3 THEN "medium" ELSE "low"

confidenceOf(sampleSize) ==
  IF sampleSize >= 7 THEN "high" ELSE IF sampleSize >= 3 THEN "medium" ELSE "low"

\* score > 6
isAwakeAbove(score) == score > 6

\* score >= 5: the points of the checks other than the end hour suffice
isAwakeFromFive(score) == score >= 5

isAwakeOf(score) == score >= 6

\* the record is never added / always added
recordWakeNever(f, isAwake, sleepRecord) == f

recordWakeAlways(f, isAwake, sleepRecord) == addToHistory(f, sleepRecord)

\* if (isAwake) addToHistory(sleepRecord)
recordWake(f, isAwake, sleepRecord) ==
  IF isAwake THEN addToHistory(f, sleepRecord) ELSE f

\* checkWake(currentSleep, history) run on the history file f; history is <<>>
\* when the argument is not passed. Yields what the call returns or throws and
\* the history file it leaves. sleepHistory.filter (no history argument) and
\* history.findIndex in addToHistory (an accepted candidate) throw a TypeError
\* when the history file holds a value that is not an array.
checkWake(currentSleep, history, f) ==
  LET parsed == parseSleepRecord(currentSleep)
  IN IF parsed.kind = "null"
     THEN [kind |-> "throw", error |-> "Invalid sleep data", file |-> f]
     ELSE IF parsed.kind = "TypeError"
     THEN [kind |-> "throw", error |-> "TypeError", file |-> f]
     ELSE IF history = <<>> /\ ~loadedIsArray(f)
     THEN [kind |-> "throw", error |-> "TypeError", file |-> f]
     ELSE
       LET sleepRecord == parsed.record
           sleepHistory == IF history = <<>> THEN loadHistory(f) ELSE history[1]
           stats == calculateRollingStats(historyWithoutToday(sleepHistory, sleepRecord.date))
           thresholds == thresholdsOf(stats)
           endHourOk == sleepRecord.endUtcHour >= thresholds.endHourMin
           endHourGood == sleepRecord.endUtcHour >= stats.minEndHour
           durationOk == sleepRecord.durationHours >= 10 * thresholds.durationMin
           cyclesOk == sleepRecord.cycles >= thresholds.cyclesMin
           perfOk == sleepRecord.performance >= thresholds.performanceMin
           checks == << Check("end_hour_minimum", endHourOk, 3),
                        Check("end_hour_typical", endHourGood, 2),
                        Check("duration", durationOk, 2),
                        Check("cycles", cyclesOk, 2),
                        Check("performance", perfOk, 1) >>
           score == Gain(endHourOk, 3) + Gain(endHourGood, 2) + Gain(durationOk, 2)
                    + Gain(cyclesOk, 2) + Gain(perfOk, 1)
           isAwake == isAwakeOf(score)
       IN IF isAwake /\ ~loadedIsArray(f)
          THEN [kind |-> "throw", error |-> "TypeError", file |-> f]
          ELSE
          [kind |-> "return",
           value |->
             [isAwake |-> isAwake,
              score |-> score,
              maxScore |-> 10,
              confidence |-> confidenceOf(stats.sampleSize),
              sleep |-> [endTime |-> currentSleep.end,
                         endHourUtc |-> sleepRecord.endUtcHour,
                         durationHours |-> Round(sleepRecord.durationHours, 10),
                         cycles |-> sleepRecord.cycles,
                         performance |-> sleepRecord.performance],
              thresholds |-> thresholds,
              checks |-> checks,
              stats |-> stats],
           file |-> recordWake(f, isAwake, sleepRecord)]

-----------------------------------------------------------------------------
(* API client and error handling. A Response is [status, retryAfter,        *)
(* records]: retryAfter is the retry-after header, <<>> when absent and      *)
(* <<text>> when present, a text being the sequence of its characters;       *)
(* records is the list the body holds. A number that may be NaN is           *)
(* [kind |-> "number", value |-> n] or [kind |-> "NaN"].                     *)

Digits == <<"0", "1", "2", "3", "4", "5", "6", "7", "8", "9">>
IsDigit(c) == \E i \in 1..10 : Digits[i] = c
DigitOf(c) == (CHOOSE i \in 1..10 : Digits[i] = c) - 1

RECURSIVE LeadingDigits(_)
LeadingDigits(text) ==
  IF text = <<>> \/ ~IsDigit(Head(text)) THEN <<>>
  ELSE <<Head(text)>> \o LeadingDigits(Tail(text))

RECURSIVE NumberOf(_)
NumberOf(digits) ==
  IF digits = <<>> THEN 0
  ELSE 10 * NumberOf(SubSeq(digits, 1, Len(digits) - 1)) + DigitOf(digits[Len(digits)])

\* parseInt(text, 10) of a text without leading blanks or sign
parseInt(text) ==
  IF LeadingDigits(text) = <<>> THEN [kind |-> "NaN"]
  ELSE [kind |-> "number", value |-> NumberOf(LeadingDigits(text))]

\* new WhoopError(message, exitCode, httpStatus)
WhoopError(message, exitCode, httpStatus) ==
  [class |-> "WhoopError", message |-> message, exitCode |-> exitCode,
   httpStatus |-> httpStatus, retryAfter |-> <<>>]

\* new RateLimitError(message, retryAfter)
RateLimitError(message, retryAfter) ==
  [class |-> "RateLimitError", message |-> message, exitCode |-> RATE_LIMIT,
   httpStatus |-> <<429>>, retryAfter |-> retryAfter]

\* an error that is not a WhoopError
PlainError(class, message) == [class |-> class, message |-> message]

\* error instanceof WhoopError
IsWhoopError(error) == error.class \in {"WhoopError", "AuthError", "RateLimitError"}

\* response.ok
responseOk(response) == response.status >= 200 /\ response.status <= 299

\* request(endpoint, params) once fetch has resolved with response; the tokens
\* are valid
request(response) ==
  IF ~responseOk(response)
  THEN IF response.status = 401
       THEN [kind |-> "throw",
             error |-> WhoopError("Authentication failed. Run: whoop auth login", AUTH_ERROR, <<401>>)]
       ELSE IF response.status = 429
       THEN [kind |-> "throw",
             error |-> RateLimitError("Rate limit exceeded",
                                      IF response.retryAfter # <<>> /\ response.retryAfter[1] # <<>>
                                      THEN <<parseInt(response.retryAfter[1])>>
                                      ELSE <<>>)]
       ELSE [kind |-> "throw",
             error |-> WhoopError("API request failed", GENERAL_ERROR, <<response.status>>)]
  ELSE [kind |-> "return", value |-> response.records]

\* a number that is truthy: neither 0 nor NaN
Truthy(number) == number # <<>> /\ number[1].kind = "number" /\ number[1].value # 0

\* handleError(error): the lines written to stderr and the exit code
handleError(error) ==
  IF IsWhoopError(error)
  THEN [lines |-> IF error.class = "RateLimitError" /\ Truthy(error.retryAfter)
                  THEN <<"Error", "Retry after">> ELSE <<"Error">>,
        code |-> error.exitCode]
  ELSE [lines |-> <<"Error">>, code |-> GENERAL_ERROR]

\* fetchData(['sleep'], date) for one page: what the caller gets
fetchSleep(response) ==
  IF request(response).kind = "throw"
  THEN [ok |-> FALSE, sleep |-> <<>>, error |-> request(response).error]
  ELSE [ok |-> TRUE, sleep |-> request(response).value]

\* fetchData(types, date) for one page each: Promise.all rejects with the error
\* of the request that fails first, and any failing request may be the first
fetchData(responses) ==
  IF \A k \in 1..Len(responses) : responseOk(responses[k])
  THEN {[kind |-> "return", value |-> [k \in 1..Len(responses) |-> responses[k].records]]}
  ELSE {request(responses[k]) : k \in {k \in 1..Len(responses) : ~responseOk(responses[k])}}

-----------------------------------------------------------------------------
(* Token storage. OAuthTokens are [access_token, refresh_token, expires_at]; *)
(* times are in minutes. The token file is absent, holds encrypted tokens,   *)
(* or holds something decrypt or JSON.parse fails on.                        *)

EXPIRY_BUFFER == 5

NoTokenFile == [exists |-> FALSE, content |-> "none", data |-> <<>>]
TokenFileOf(tokens) == [exists |-> TRUE, content |-> "tokens", data |-> <<tokens>>]
GarbledTokenFile == [exists |-> TRUE, content |-> "garbled", data |-> <<>>]

\* saveTokens(tokens)
saveTokens(tokens) == TokenFileOf(tokens)

\* loadTokens(): <<>> for null
loadTokens(f) == IF f.exists /\ f.content = "tokens" THEN f.data ELSE <<>>

\* the file stays
deleteTokensNot(f) == f

\* deleteTokens()
deleteTokens(f) == IF f.exists THEN NoTokenFile ELSE f

\* hasTokens()
hasTokens(f) == f.exists

\* expired only once expires_at has passed
isTokenExpiredLate(tokens, now) == tokens.expires_at <= now

\* isTokenExpired(tokens) at time now
isTokenExpired(tokens, now) == tokens.expires_at - EXPIRY_BUFFER <= now

AuthError(message) ==
  [class |-> "AuthError", message |-> message, exitCode |-> AUTH_ERROR, httpStatus |-> <<>>]

\* OAuthTokens; token_type and scope are left out
Tokens(access_token, refresh_token, expires_at) ==
  [access_token |-> access_token, refresh_token |-> refresh_token, expires_at |-> expires_at]

\* What the token endpoint answers to a POST: [kind |-> "ok", data |-> [access_token,
\* refresh_token, expires_in]], [kind |-> "refused"] (a status that is not
\* OK), or [kind |-> "failed"] (fetch rejects, no answer).
Grant(access_token, refresh_token, expires_in) ==
  [kind |-> "ok",
   data |-> [access_token |-> access_token, refresh_token |-> refresh_token,
             expires_in |-> expires_in]]
Refused == [kind |-> "refused"]
NoAnswer == [kind |-> "failed"]

\* the tokens built from the answer's data at time now
tokensOf(data, now) == Tokens(data.access_token, data.refresh_token, now + data.expires_in)

\* The outcome of a function that may save tokens and post to the token
\* endpoint: what it returns or throws, the tokens it saved (<<>>: none) and
\* the refresh tokens it posted.
Gave(value, saved, posted) ==
  [kind |-> "return", value |-> value, saved |-> saved, posted |-> posted]
Threw(error, posted) ==
  [kind |-> "throw", error |-> error, saved |-> <<>>, posted |-> posted]

\* refreshAccessToken(tokens) at time now; credentials: WHOOP_CLIENT_ID and
\* WHOOP_CLIENT_SECRET are both set; response: the token endpoint's answer
refreshAccessToken(tokens, now, credentials, response) ==
  IF ~credentials
  THEN Threw(AuthError("WHOOP_CLIENT_ID and WHOOP_CLIENT_SECRET must be set"), <<>>)
  ELSE IF response.kind = "failed"
  THEN Threw(PlainError("TypeError", "fetch failed"), <<tokens.refresh_token>>)
  ELSE IF response.kind = "refused"
  THEN Threw(AuthError("Failed to refresh token"), <<tokens.refresh_token>>)
  ELSE LET newTokens == tokensOf(response.data, now)
       IN Gave(newTokens, <<newTokens>>, <<tokens.refresh_token>>)

\* getValidTokens() on the token file f at time now
getValidTokens(f, now, credentials, response) ==
  LET tokens == loadTokens(f)
  IN IF tokens = <<>>
     THEN Threw(AuthError("Not authenticated. Run: whoop auth login"), <<>>)
     ELSE IF isTokenExpired(tokens[1], now)
     THEN refreshAccessToken(tokens[1], now, credentials, response)
     ELSE Gave(tokens[1], <<>>, <<>>)

\* the token file after an outcome
fileAfter(f, outcome) == IF outcome.saved # <<>> THEN saveTokens(outcome.saved[1]) ELSE f

-----------------------------------------------------------------------------
(* The local OAuth callback server. A request is [path, code, state, error], *)
(* the last three being query parameters: <<>> when absent, else <<text>>.   *)
(* The promise startCallbackServer returns is pending, resolved with a       *)
(* CallbackResult or rejected with an Error. A listener is [server, timer,   *)
(* promise]: server is "listening", "closing" (close() was called, open      *)
(* connections remain), "closed" (the 'close' event was emitted) or          *)
(* "failed" (the 'error' event was emitted); timer is the 120 s timeout,     *)
(* "armed", "cleared" or "fired".                                            *)

CallbackRequest(path, code, state, error) ==
  [path |-> path, code |-> code, state |-> state, error |-> error]

\* url.searchParams.get(name) is truthy: present and not empty
Present(param) == param # <<>> /\ param[1] # ""

Pending == [status |-> "pending"]
Resolved(code, state) == [status |-> "resolved", value |-> [code |-> code, state |-> state]]
Rejected(message) == [status |-> "rejected", error |-> PlainError("Error", message)]

\* resolve(...) and reject(...): only a pending promise settles
settle(promise, outcome) == IF promise.status = "pending" THEN outcome ELSE promise

\* the handler without the comparison of state with expectedState
handleCallbackAnyState(expectedState, req) ==
  IF req.path # "/callback" THEN [status |-> 404, close |-> FALSE, settle |-> <<>>]
  ELSE IF Present(req.error)
  THEN [status |-> 400, close |-> TRUE, settle |-> <<Rejected("OAuth error")>>]
  ELSE IF ~Present(req.code) \/ ~Present(req.state)
  THEN [status |-> 400, close |-> TRUE, settle |-> <<Rejected("Missing code or state in callback")>>]
  ELSE [status |-> 200, close |-> TRUE, settle |-> <<Resolved(req.code[1], req.state[1])>>]

\* The request handler of createServer: the status it answers with, whether
\* it calls server.close(), and what it resolves or rejects the promise with
\* (<<>>: neither).
handleCallback(expectedState, req) ==
  IF req.path # "/callback" THEN [status |-> 404, close |-> FALSE, settle |-> <<>>]
  ELSE IF Present(req.error)
  THEN [status |-> 400, close |-> TRUE, settle |-> <<Rejected("OAuth error")>>]
  ELSE IF ~Present(req.code) \/ ~Present(req.state)
  THEN [status |-> 400, close |-> TRUE, settle |-> <<Rejected("Missing code or state in callback")>>]
  ELSE IF req.state[1] # expectedState
  THEN [status |-> 400, close |-> TRUE, settle |-> <<Rejected("State mismatch - possible CSRF attack")>>]
  ELSE [status |-> 200, close |-> TRUE, settle |-> <<Resolved(req.code[1], req.state[1])>>]

\* server.close(): a listening server stops listening
closeServer(server) == IF server = "listening" THEN "closing" ELSE server

\* no timeout is set
startCallbackServerNoTimeout ==
  [server |-> "listening", timer |-> "cleared", promise |-> Pending]

\* startCallbackServer(expectedState): the server listens, the timeout is set
startCallbackServer ==
  [server |-> "listening", timer |-> "armed", promise |-> Pending]

\* a request is handled
onRequest(listener, expectedState, req) ==
  LET handled == handleCallback(expectedState, req)
  IN [server |-> IF handled.close THEN closeServer(listener.server) ELSE listener.server,
      timer |-> listener.timer,
      promise |-> IF handled.settle # <<>> THEN settle(listener.promise, handled.settle[1])
                  ELSE listener.promise]

\* the timeout handler
onTimeout(listener) ==
  [server |-> closeServer(listener.server),
   timer |-> "fired",
   promise |-> settle(listener.promise, Rejected("OAuth callback timed out"))]

\* server.on('close'): emitted once close() was called and no connection is open
onClose(listener) ==
  [server |-> "closed",
   timer |-> IF listener.timer = "armed" THEN "cleared" ELSE listener.timer,
   promise |-> listener.promise]

\* server.on('error'), e.g. the port is in use
onError(listener) ==
  [server |-> "failed",
   timer |-> IF listener.timer = "armed" THEN "cleared" ELSE listener.timer,
   promise |-> settle(listener.promise, Rejected("listen EADDRINUSE"))]

-----------------------------------------------------------------------------
(* OAuth flow and the auth actions *)

\* exchangeCode(code, ...) at time now, response being the token endpoint's
\* answer; it saves nothing
exchangeCode(code, response, now) ==
  IF response.kind = "failed" THEN Threw(PlainError("TypeError", "fetch failed"), <<>>)
  ELSE IF response.kind = "refused" THEN Threw(AuthError("Failed to exchange code"), <<>>)
  ELSE Gave(tokensOf(response.data, now), <<>>, <<>>)

\* login(), callback being what the promise of startCallbackServer settled
\* with and response the token endpoint's answer to the exchange
login(credentials, callback, response, now) ==
  IF ~credentials
  THEN Threw(AuthError("WHOOP_CLIENT_ID and WHOOP_CLIENT_SECRET must be set."), <<>>)
  ELSE IF callback.status = "rejected" THEN Threw(callback.error, <<>>)
  ELSE LET tokens == exchangeCode(callback.value.code, response, now)
       IN IF tokens.kind = "throw" THEN tokens
          ELSE Gave(tokens.value, <<tokens.value>>, <<>>)

\* logout(): the line it prints and the token file it leaves
logout(f) ==
  IF ~hasTokens(f) THEN [line |-> "No stored tokens found.", file |-> f]
  ELSE [line |-> "Logged out. Tokens deleted.", file |-> deleteTokens(f)]

\* status() at time now: the first line it prints and the AuthStatus it returns
authStatus(f, now) ==
  LET tokens == loadTokens(f)
  IN IF tokens = <<>>
     THEN [line |-> "Not authenticated", value |-> [authenticated |-> FALSE]]
     ELSE [line |-> IF isTokenExpired(tokens[1], now) THEN "Access token expired" ELSE "Authenticated",
           value |-> [authenticated |-> TRUE, expires_at |-> tokens[1].expires_at]]

\* refresh() of auth refresh
refresh(f, now, credentials, response) ==
  LET tokens == loadTokens(f)
  IN IF tokens = <<>>
     THEN Threw(AuthError("Not authenticated. Run: whoop auth login"), <<>>)
     ELSE refreshAccessToken(tokens[1], now, credentials, response)

\* request(endpoint, params) on the token file f: getValidTokens() first, then
\* the fetch with the access token it gave as the bearer. valid is the outcome
\* of getValidTokens, bearer the access token sent (<<>>: no request sent).
authorizedRequest(f, now, credentials, tokenResponse, response) ==
  LET valid == getValidTokens(f, now, credentials, tokenResponse)
  IN IF valid.kind = "throw"
     THEN [kind |-> "throw", error |-> valid.error, valid |-> valid, bearer |-> <<>>]
     ELSE LET out == request(response)
          IN IF out.kind = "throw"
             THEN [kind |-> "throw", error |-> out.error, valid |-> valid,
                   bearer |-> <<valid.value.access_token>>]
             ELSE [kind |-> "return", value |-> out.value, valid |-> valid,
                   bearer |-> <<valid.value.access_token>>]

-----------------------------------------------------------------------------
(* Inputs *)

\* a scored primary sleep that starts on day d
Session(d, endHour, centiHours, cycles, performance, efficiency) ==
  [start |-> <<d, 5>>,
   end |-> <<d, endHour>>,
   nap |-> FALSE,
   score |-> <<[stage_summary |-> <<[total_in_bed_time_milli |-> <<centiHours * MilliPerCentiHour>>,
                                     sleep_cycle_count |-> <<cycles>>]>>,
                sleep_performance_percentage |-> <<performance>>,
                sleep_efficiency_percentage |-> <<efficiency>>]>>]

\* the usual night of day d
Night(d) == Session(d, 12 + (d % 3), 702 + 20 * (d % 4), 3 + (d % 3), 76 + 3 * (d % 5), 90)

\* the night of day d after WHOOP rescored it
Rescored(d) == Session(d, 13, 812, 5, 91, 95)

\* a session the API returned without the named property
Without(sleep, property) ==
  LET score == sleep.score[1]
      stages == score.stage_summary[1]
  IN CASE property = "start" -> [sleep EXCEPT !.start = <<>>]
       [] property = "end" -> [sleep EXCEPT !.end = <<>>]
       [] property = "score" -> [sleep EXCEPT !.score = <<>>]
       [] property = "stage_summary" ->
            [sleep EXCEPT !.score = <<[score EXCEPT !.stage_summary = <<>>]>>]
       [] property = "total_in_bed_time_milli" ->
            [sleep EXCEPT !.score = <<[score EXCEPT !.stage_summary =
                <<[stages EXCEPT !.total_in_bed_time_milli = <<>>]>>]>>]
       [] property = "sleep_cycle_count" ->
            [sleep EXCEPT !.score = <<[score EXCEPT !.stage_summary =
                <<[stages EXCEPT !.sleep_cycle_count = <<>>]>>]>>]
       [] property = "sleep_performance_percentage" ->
            [sleep EXCEPT !.score = <<[score EXCEPT !.sleep_performance_percentage = <<>>]>>]
       [] property = "sleep_efficiency_percentage" ->
            [sleep EXCEPT !.score = <<[score EXCEPT !.sleep_efficiency_percentage = <<>>]>>]

RequiredProperties ==
  {"start", "end", "score", "stage_summary", "total_in_bed_time_milli",
   "sleep_cycle_count", "sleep_performance_percentage", "sleep_efficiency_percentage"}

RecordOf(sleep) == parseSleepRecord(sleep).record

\* the history file an earlier seeding run left: the usual nights of SeededDates
SeededDates == 3..(NumDates - 2)
FreeDates == Dates \ SeededDates
SeededFile == ListFile([i \in 1..(NumDates - 4) |-> RecordOf(Night(i + 2))])

\* what fetchData(['sleep'], dateStr) yields in the seeding loop
Fetched(sleeps) == [ok |-> TRUE, sleep |-> sleeps]
FetchFailed == [ok |-> FALSE, sleep |-> <<>>, error |-> PlainError("TypeError", "fetch failed")]
Nap(d) == [Night(d) EXCEPT !.nap = TRUE]

SeedSessions ==
  {Night(d) : d \in FreeDates}
    \cup {Rescored(NumDates), Rescored(3)}
    \cup {Without(Night(1), p) : p \in {"end", "score", "stage_summary"}}

SeedFetches ==
  {Fetched(<<s>>) : s \in SeedSessions}
    \cup {FetchFailed, Fetched(<<>>), Fetched(<<Nap(2)>>), Fetched(<<Nap(2), Night(2)>>)}

\* the sessions checkWake is called with
WakeDates == {1, NumDates}
WakeSessions ==
  {Session(d, e, h, c, p, 90) :
     d \in WakeDates, e \in {9, 11, 13}, h \in {202, 752}, c \in {1, 3}, p \in {40, 85}}
    \cup {Without(Session(NumDates, 13, 752, 3, 85, 90), p) : p \in RequiredProperties}

\* the history argument of checkWake
AscendingNights == [i \in 1..OverrideLen |-> RecordOf(Night(i + 3))]
DescendingNights == [i \in 1..OverrideLen |-> AscendingNights[OverrideLen + 1 - i]]
Histories ==
  { <<>>,
    << <<>> >>,
    << <<RecordOf(Night(NumDates))>> >>,
    << AscendingNights >>,
    << DescendingNights >> }

-----------------------------------------------------------------------------
(* State machine. A behaviour is any number of iterations of the seeding  *)
(* loop, for any dates in any order, on an absent history file or on the   *)
(* file an earlier seeding run left, followed by one call of checkWake.    *)

NoRet == [kind |-> "none"]

Init ==
  /\ \/ /\ file = NoFile
        /\ ever = [d \in Dates |-> <<>>]
     \/ /\ file = SeededFile
        /\ ever = [d \in Dates |-> IF d \in SeededDates THEN <<RecordOf(Night(d))>> ELSE <<>>]
  /\ prev = file
  /\ call = [op |-> "start"]
  /\ ret = NoRet
  /\ tokenFile = NoTokenFile

\* sleeps.find(s => !s.nap): <<>> when there is none
RECURSIVE FindPrimary(_)
FindPrimary(sleeps) ==
  IF sleeps = <<>> THEN <<>>
  ELSE IF ~Head(sleeps).nap THEN <<Head(sleeps)>> ELSE FindPrimary(Tail(sleeps))

\* the try block of one iteration of the seeding loop, on the history file f;
\* fetched is what fetchData(['sleep'], dateStr) yields. Gives the line it
\* prints, the file it leaves, the record it upserts and the error it throws.
seedTry(f, fetched) ==
  LET primarySleep == FindPrimary(fetched.sleep)
      parsed == IF primarySleep # <<>>
                THEN parseSleepRecord(primarySleep[1])
                ELSE [kind |-> "null"]
      Thrown(error) ==
        [kind |-> "throw", line |-> "nothing", file |-> f, upserted |-> <<>>, error |-> <<error>>]
  IN IF ~fetched.ok THEN Thrown(fetched.error)
     ELSE IF parsed.kind = "TypeError" THEN Thrown(PlainError("TypeError", "split"))
     ELSE IF parsed.kind = "record"
     THEN IF ~loadedIsArray(f) THEN Thrown(PlainError("TypeError", "findIndex"))
          ELSE [kind |-> "printed", line |-> "ok", file |-> addToHistory(f, parsed.record),
                upserted |-> <<parsed.record>>, error |-> <<>>]
     ELSE [kind |-> "printed", line |-> "nothing", file |-> f, upserted |-> <<>>, error |-> <<>>]

\* an iteration without the catch: a throw leaves the try block
seedIterationUncaught(f, fetched) == seedTry(f, fetched)

\* one iteration: try { ... } catch { console.error('no data') }
seedIteration(f, fetched) ==
  IF seedTry(f, fetched).kind = "throw"
  THEN [kind |-> "printed", line |-> "no data", file |-> f, upserted |-> <<>>, error |-> <<>>]
  ELSE seedTry(f, fetched)

\* the loop from the state acc on the fetch results that remain; a throw that
\* leaves an iteration ends the loop
RECURSIVE seedLoop(_, _)
seedLoop(acc, fetches) ==
  IF fetches = <<>> \/ acc.error # <<>> THEN acc
  ELSE LET day == seedIteration(acc.file, Head(fetches))
       IN seedLoop([file |-> day.file,
                    lines |-> IF day.kind = "throw" THEN acc.lines ELSE Append(acc.lines, day.line),
                    upserted |-> acc.upserted \o day.upserted,
                    error |-> day.error],
                   Tail(fetches))

\* ever after addToHistory was called with each of the records in turn
RECURSIVE EverAfter(_, _)
EverAfter(e, records) ==
  IF records = <<>> THEN e
  ELSE EverAfter([e EXCEPT ![Head(records).date] = <<Head(records)>>], Tail(records))

\* whoop wake --seed: one iteration of the loop over the last 14 days
SeedDay(fetched) ==
  \E day \in {seedIteration(file, fetched)} :
     /\ call' = [op |-> "seed", fetched |-> fetched]
     /\ UNCHANGED tokenFile
     /\ prev' = file
     /\ ret' = [kind |-> "printed", line |-> day.line]
     /\ file' = day.file
     /\ ever' = EverAfter(ever, day.upserted)

Seed ==
  /\ call.op # "checkWake"
  /\ \E fetched \in SeedFetches : SeedDay(fetched)

CheckWake(currentSleep, history) ==
  \E out \in {checkWake(currentSleep, history, file)} :
     /\ call' = [op |-> "checkWake", sleep |-> currentSleep, history |-> history]
     /\ UNCHANGED tokenFile
     /\ prev' = file
     /\ ret' = [k \in DOMAIN out \ {"file"} |-> out[k]]
     /\ file' = out.file
     /\ ever' = IF out.kind = "return" /\ out.value.isAwake
                THEN [ever EXCEPT ![RecordOf(currentSleep).date] = <<RecordOf(currentSleep)>>]
                ELSE ever

Wake ==
  /\ call.op # "checkWake"
  /\ \E currentSleep \in WakeSessions, history \in Histories :
       CheckWake(currentSleep, history)

Next == Seed \/ Wake

Spec == Init /\ [][Next]_vars

-----------------------------------------------------------------------------
(* checkWake as a function of its arguments: one call on a candidate and a  *)
(* history that holds the same four values in every entry.                  *)

\* endUtcHour, durationHours (hundredths), cycles, performance
EvalMeasures ==
  {<<e, h, c, p>> : e \in {0, 13}, h \in {6, 750}, c \in {0, 1, 2, 4}, p \in {1, 82}}

\* n entries, of the days 1..n, that all have the measures m
Uniform(n, m) == [i \in 1..n |-> RecordOf(Session(i, m[1], m[2], m[3], m[4], 90))]

EvalHistories ==
  {<<>>} \cup {<<Uniform(n, m)>> : n \in 0..EvalLen, m \in EvalMeasures}

\* candidates of a day the history may hold and of a later day
EvalDates == {4, NumDates}
EvalSessions ==
  {Session(d, m[1], m[2], m[3], m[4], 90) :
     d \in EvalDates, m \in EvalMeasures \cup {<<10, 202, 1, 40>>}}

InitEval ==
  /\ file = NoFile
  /\ ever = [d \in Dates |-> <<>>]
  /\ prev = file
  /\ call = [op |-> "start"]
  /\ ret = NoRet
  /\ tokenFile = NoTokenFile

Evaluate ==
  /\ call.op = "start"
  /\ \E currentSleep \in EvalSessions, history \in EvalHistories :
       CheckWake(currentSleep, history)

NextEval == Evaluate

SpecEval == InitEval /\ [][NextEval]_vars

-----------------------------------------------------------------------------
(* Two CLI processes that each call addToHistory once. A process reads the  *)
(* history file (loadHistory) and later overwrites it (saveHistory); between *)
(* the two the other process may read or write the file.                     *)

Procs == {1, 2}

\* a history file that holds the nights of the days 3, 4 and 5
RaceFile == ListFile([i \in 1..3 |-> RecordOf(Night(i + 2))])

RaceRecords == {RecordOf(Night(d)) : d \in FreeDates} \cup {RecordOf(Rescored(3))}

\* a write that first reads the file again, as under a lock held from the read
lockedWrite(seen, current, record) == addToHistory(current, record)

\* the file a process writes: the history it read (the file as it saw it), with
\* its record put in; the current content of the file is overwritten unread
staleWrite(seen, current, record) == addToHistory(seen, record)

InitRace ==
  /\ \/ /\ file = NoFile
        /\ ever = [d \in Dates |-> <<>>]
     \/ /\ file = RaceFile
        /\ ever = [d \in Dates |-> IF d \in 3..5 THEN <<RecordOf(Night(d))>> ELSE <<>>]
  /\ prev = file
  /\ \E r1 \in RaceRecords, r2 \in RaceRecords :
       call = [op |-> "addToHistory",
               procs |-> [p \in Procs |->
                            [pc |-> "load", record |-> IF p = 1 THEN r1 ELSE r2, seen |-> NoFile]]]
  /\ ret = NoRet
  /\ tokenFile = NoTokenFile

\* const history = loadHistory()
RaceLoad ==
  \E p \in Procs :
     /\ call.procs[p].pc = "load"
     /\ call' = [call EXCEPT !.procs[p].pc = "save", !.procs[p].seen = file]
     /\ UNCHANGED <<file, prev, ret, ever, tokenFile>>

\* findIndex, push, sort and saveHistory(history)
RaceSave ==
  \E p \in Procs :
     /\ call.procs[p].pc = "save"
     /\ file' = staleWrite(call.procs[p].seen, file, call.procs[p].record)
     /\ UNCHANGED tokenFile
     /\ prev' = file
     /\ call' = [call EXCEPT !.procs[p].pc = "done"]
     /\ ret' = [kind |-> "saved", by |-> p]
     /\ ever' = [ever EXCEPT ![call.procs[p].record.date] = <<call.procs[p].record>>]

NextRace == RaceLoad \/ RaceSave

SpecRace == InitRace /\ [][NextRace]_vars

-----------------------------------------------------------------------------
(* One run of a command of the CLI, on the responses the API gives to its   *)
(* requests.                                                                 *)

Response(status, retryAfter, records) ==
  [status |-> status, retryAfter |-> retryAfter, records |-> records]

\* the responses that are not OK: 401, 404, 500, and 429 without a retry-after
\* header, with a number of seconds and with an HTTP date
ErrorResponses ==
  {Response(status, <<>>, <<>>) : status \in {401, 404, 500, 429}}
    \cup {Response(429, <<text>>, <<>>) : text \in {<<"6", "0">>, <<"0">>, <<"W", "e", "d">>}}

\* the day the k-th iteration of the seeding loop fetches
SeedDate(k) == NumDates - SEED_DAYS + k

\* a night that checkWake would not accept
Short(d) == Session(d, 9, 202, 1, 40, 90)

\* what the API may answer for day d
DayResponses(d) ==
  {Response(200, <<>>, <<sleep>>) :
     sleep \in {Short(d), Without(Night(d), "score"), Without(Night(d), "end"),
                Without(Night(d), "stage_summary")}}
    \cup {Response(status, <<>>, <<>>) : status \in {401, 429, 500}}

\* the iterations whose response varies; the others get the usual night
VaryDays == {1, 2, 8, SEED_DAYS}
SeedPlans ==
  {[k \in 1..SEED_DAYS |-> IF k \in VaryDays THEN choice[k] ELSE Response(200, <<>>, <<Night(SeedDate(k))>>)] :
     choice \in {c \in [VaryDays -> UNION {DayResponses(SeedDate(k)) : k \in VaryDays}] :
                   \A k \in VaryDays : c[k] \in DayResponses(SeedDate(k))}}

\* a history file that an earlier run left: the last three days, rescored since
EarlierFile == ListFile([i \in 1..3 |-> RecordOf(Rescored(NumDates - 3 + i))])

InitCli ==
  /\ \/ /\ file = NoFile
        /\ ever = [d \in Dates |-> <<>>]
     \/ /\ file = EarlierFile
        /\ ever = [d \in Dates |-> IF d > NumDates - 3 THEN <<RecordOf(Rescored(d))>> ELSE <<>>]
  /\ prev = file
  /\ call = [op |-> "start"]
  /\ ret = NoRet
  /\ tokenFile = NoTokenFile

\* whoop wake --seed
SeedCommand(plan) ==
  \E out \in {seedLoop([file |-> file, lines |-> <<>>, upserted |-> <<>>, error |-> <<>>],
                        [k \in 1..Len(plan) |-> fetchSleep(plan[k])])} :
     /\ call' = [op |-> "wake --seed", responses |-> plan]
     /\ UNCHANGED tokenFile
     /\ prev' = file
     /\ file' = out.file
     /\ ever' = EverAfter(ever, out.upserted)
     /\ ret' = IF out.error # <<>>
               THEN [kind |-> "exit", code |-> handleError(out.error[1]).code,
                     error |-> out.error, lines |-> out.lines]
               ELSE [kind |-> "exit", code |-> SUCCESS, error |-> <<>>, lines |-> out.lines]

SeedRun ==
  /\ call.op = "start"
  /\ \E plan \in SeedPlans : SeedCommand(plan)

\* whoop sleep, whoop recovery, ... (one request) and whoop summary (three)
DataCommand(responses) ==
  \E out \in fetchData(responses) :
     /\ call' = [op |-> "data", responses |-> responses]
     /\ ret' = IF out.kind = "throw"
               THEN [kind |-> "exit", code |-> handleError(out.error).code,
                     error |-> <<out.error>>, lines |-> handleError(out.error).lines]
               ELSE [kind |-> "exit", code |-> SUCCESS, error |-> <<>>, lines |-> <<>>]
     /\ UNCHANGED tokenFile
     /\ prev' = file
     /\ UNCHANGED <<file, ever>>

DataResponses == ErrorResponses \cup {Response(200, <<>>, <<Night(NumDates)>>)}

DataRun ==
  /\ call.op = "start"
  /\ \E r1 \in DataResponses :
       \/ DataCommand(<<r1>>)
       \/ \E r2 \in DataResponses, r3 \in DataResponses : DataCommand(<<r1, r2, r3>>)

\* whoop wake: fetch today's sleep, pick the primary sleep, run checkWake
WakeCommand(response) ==
  \E fetched \in {fetchSleep(response)} :
     /\ call' = [op |-> "wake", responses |-> <<response>>]
     /\ UNCHANGED tokenFile
     /\ prev' = file
     /\ IF ~fetched.ok
        THEN /\ ret' = [kind |-> "exit", code |-> handleError(fetched.error).code,
                        error |-> <<fetched.error>>, lines |-> handleError(fetched.error).lines]
             /\ UNCHANGED <<file, ever>>
        ELSE IF fetched.sleep = <<>>
        THEN /\ ret' = [kind |-> "exit", code |-> SUCCESS, error |-> <<>>, lines |-> <<>>]
             /\ UNCHANGED <<file, ever>>
        ELSE \E primarySleep \in {IF FindPrimary(fetched.sleep) # <<>>
                                   THEN FindPrimary(fetched.sleep)[1] ELSE fetched.sleep[1]} :
             \E out \in {checkWake(primarySleep, <<>>, file)} :
                /\ ret' = IF out.kind = "throw"
                          THEN [kind |-> "exit",
                                code |-> handleError(PlainError("Error", out.error)).code,
                                error |-> <<PlainError("Error", out.error)>>,
                                lines |-> <<"Error">>]
                          ELSE [kind |-> "exit", code |-> SUCCESS, error |-> <<>>, lines |-> <<>>]
                /\ file' = out.file
                /\ ever' = IF out.kind = "return" /\ out.value.isAwake
                           THEN EverAfter(ever, <<RecordOf(primarySleep)>>)
                           ELSE ever

WakeResponses ==
  ErrorResponses
    \cup {Response(200, <<>>, sleeps) :
            sleeps \in {<<>>, <<Night(NumDates)>>, <<Short(NumDates)>>, <<Nap(2)>>,
                        <<Nap(2), Night(2)>>, <<Without(Night(1), "score")>>}}

WakeRun ==
  /\ call.op = "start"
  /\ \E response \in WakeResponses : WakeCommand(response)

NextCli == SeedRun \/ DataRun \/ WakeRun

SpecCli == InitCli /\ [][NextCli]_vars

-----------------------------------------------------------------------------
(* checkWake and the seeding loop on a history file that is absent or       *)
(* damaged.                                                                  *)

InitLoad ==
  /\ file \in {NoFile, ObjectFile, GarbledFile, UnreadableFile}
  /\ ever = [d \in Dates |-> <<>>]
  /\ prev = file
  /\ call = [op |-> "start"]
  /\ ret = NoRet
  /\ tokenFile = NoTokenFile

NextLoad == Seed \/ Wake

SpecLoad == InitLoad /\ [][NextLoad]_vars

-----------------------------------------------------------------------------
(* Successive calls of checkWake on the persisted store: every call loads   *)
(* the history file the call before it left. call.run counts the calls and  *)
(* call.earlier holds the session and the outcome of the call before.       *)

MaxRuns == 3

\* the stores the calls start from: none, a short one, and a full one that
\* lacks day 9
ShortDates == 3..5
FullDates == (2..(HISTORY_DAYS + 2)) \ {9}
StoreOf(dates) ==
  ListFile(SortByDate([i \in 1..Cardinality(dates) |->
     RecordOf(Night(CHOOSE d \in dates : Cardinality({x \in dates : x < d}) = i - 1))]))
RunStores == {{}, ShortDates, FullDates}

\* day and end hour of the candidates that pass duration, cycles and
\* performance, and one candidate that fails them
RunSessions ==
  {Session(m[1], m[2], 752, 3, 85, 90) :
     m \in {<<1, 11>>, <<5, 10>>, <<9, 10>>, <<9, 8>>,
            <<NumDates, 11>>, <<NumDates, 10>>, <<NumDates, 9>>, <<NumDates, 8>>}}
    \cup {Session(NumDates, 13, 202, 1, 40, 90)}

InitRuns ==
  /\ \E dates \in RunStores :
       /\ file = (IF dates = {} THEN NoFile ELSE StoreOf(dates))
       /\ ever = [d \in Dates |-> IF d \in dates THEN <<RecordOf(Night(d))>> ELSE <<>>]
  /\ prev = file
  /\ call = [op |-> "start", run |-> 0]
  /\ ret = NoRet
  /\ tokenFile = NoTokenFile

Run ==
  /\ call.run < MaxRuns
  /\ \E currentSleep \in RunSessions :
       \E out \in {checkWake(currentSleep, <<>>, file)} :
          /\ call' = [op |-> "checkWake", sleep |-> currentSleep, history |-> <<>>,
                      run |-> call.run + 1,
                      earlier |-> IF call.op = "checkWake"
                                  THEN <<[sleep |-> call.sleep, ret |-> ret]>> ELSE <<>>]
          /\ UNCHANGED tokenFile
          /\ prev' = file
          /\ ret' = [k \in DOMAIN out \ {"file"} |-> out[k]]
          /\ file' = out.file
          /\ ever' = IF out.kind = "return" /\ out.value.isAwake
                     THEN [ever EXCEPT ![RecordOf(currentSleep).date] = <<RecordOf(currentSleep)>>]
                     ELSE ever

NextRuns == Run

SpecRuns == InitRuns /\ [][NextRuns]_vars

-----------------------------------------------------------------------------
(* fetchAll(endpoint, params, all): one action per iteration of its loop.   *)
(* call.script is what the API answers to the first, second, ... request;   *)
(* a page is a Response with the next_token of its body, <<>> when the body  *)
(* has none. call.sent lists the nextToken parameter of each request made,   *)
(* call.results and call.nextToken are the locals of fetchAll.               *)

MaxPages == 3

\* a string that is neither undefined nor empty
TruthyText(text) == text # <<>> /\ text[1] # ""

Page(records, next_token) ==
  [status |-> 200, retryAfter |-> <<>>, records |-> records, next_token |-> next_token]
ServerError ==
  [status |-> 500, retryAfter |-> <<>>, records |-> <<>>, next_token |-> <<>>]
Pages ==
  {Page(records, t) : records \in {<<1>>, <<2, 3>>}, t \in {<<>>, <<"page2">>, <<"">>}}
    \cup {ServerError}
Scripts == [1..MaxPages -> Pages]

\* the API's answer to request number k: after the script it fails
Answer(script, k) == IF k <= Len(script) THEN script[k] ELSE ServerError

\* nextToken = response.next_token, whatever all is
nextTokenAlways(all, response) == response.next_token

\* nextToken = all ? response.next_token : undefined
nextTokenAfter(all, response) == IF all THEN response.next_token ELSE <<>>

\* if (params?.nextToken) url.searchParams.set('nextToken', params.nextToken)
nextTokenParam(nextToken) == IF TruthyText(nextToken) THEN nextToken ELSE <<>>

InitPages ==
  /\ file = NoFile
  /\ ever = [d \in Dates |-> <<>>]
  /\ prev = file
  /\ \E all \in BOOLEAN, script \in Scripts :
       call = [op |-> "fetchAll", all |-> all, script |-> script, pc |-> "request",
               sent |-> <<>>, results |-> <<>>, nextToken |-> <<>>]
  /\ ret = NoRet
  /\ tokenFile = NoTokenFile

\* one pass through the body of do ... while (nextToken)
FetchPage ==
  /\ call.op = "fetchAll" /\ call.pc = "request"
  /\ Len(call.sent) <= MaxPages
  /\ \E response \in {Answer(call.script, Len(call.sent) + 1)} :
     \E out \in {request(response)} :
       /\ IF out.kind = "throw"
          THEN /\ call' = [call EXCEPT !.sent = Append(@, nextTokenParam(call.nextToken)),
                                       !.pc = "thrown"]
               /\ ret' = out
          ELSE \E nextToken \in {nextTokenAfter(call.all, response)} :
               /\ call' = [call EXCEPT !.sent = Append(@, nextTokenParam(call.nextToken)),
                                       !.results = @ \o out.value,
                                       !.nextToken = nextToken,
                                       !.pc = IF TruthyText(nextToken) THEN "request" ELSE "done"]
               /\ ret' = IF TruthyText(nextToken) THEN ret
                         ELSE [kind |-> "return", value |-> call.results \o out.value]
       /\ UNCHANGED <<file, prev, ever, tokenFile>>

NextPages == FetchPage

SpecPages == InitPages /\ [][NextPages]_vars

-----------------------------------------------------------------------------
(* The --date option of the data commands, summary and the default command. *)
(* A date string is the sequence of its characters. A Date is               *)
(* [kind |-> "NaN"] (Invalid Date) or [kind |-> "time", year, month, day],   *)
(* the calendar day of its UTC midnight. The time zone of the process is    *)
(* its offset from UTC in hours.                                            *)

\* /^\d{4}-\d{2}-\d{2}$/.test(dateStr)
matchesDatePattern(dateStr) ==
  /\ Len(dateStr) = 10
  /\ \A i \in {1, 2, 3, 4, 6, 7, 9, 10} : IsDigit(dateStr[i])
  /\ dateStr[5] = "-" /\ dateStr[8] = "-"

\* dateStr.split('-').map(Number) of a string of that pattern
YearOf(dateStr) ==
  1000 * DigitOf(dateStr[1]) + 100 * DigitOf(dateStr[2]) + 10 * DigitOf(dateStr[3]) + DigitOf(dateStr[4])
MonthOf(dateStr) == 10 * DigitOf(dateStr[6]) + DigitOf(dateStr[7])
DayOf(dateStr) == 10 * DigitOf(dateStr[9]) + DigitOf(dateStr[10])

IsLeapYear(y) == (y % 4 = 0 /\ y % 100 # 0) \/ y % 400 = 0
DaysInMonth(y, m) ==
  IF m = 2 THEN (IF IsLeapYear(y) THEN 29 ELSE 28)
  ELSE IF m \in {4, 6, 9, 11} THEN 30 ELSE 31

InvalidDate == [kind |-> "NaN"]
DateOf(y, m, d) == [kind |-> "time", year |-> y, month |-> m, day |-> d]

\* the day before / after a calendar day
DayBefore(t) ==
  IF t.day > 1 THEN DateOf(t.year, t.month, t.day - 1)
  ELSE IF t.month > 1 THEN DateOf(t.year, t.month - 1, DaysInMonth(t.year, t.month - 1))
  ELSE DateOf(t.year - 1, 12, 31)

\* new Date(dateStr): the values an engine may give. A date-only ISO string is
\* UTC midnight of its day; a day that its month does not have is either
\* rejected or carried into the next month (V8); a month or day out of range
\* is rejected; the empty string is rejected; any other string is left to the
\* engine's own parser, which rejects it or reads some date out of it.
newDate(dateStr) ==
  IF dateStr = <<>> THEN {InvalidDate}
  ELSE IF ~matchesDatePattern(dateStr) THEN {InvalidDate, DateOf(2026, 1, 6)}
  ELSE LET y == YearOf(dateStr)
           m == MonthOf(dateStr)
           d == DayOf(dateStr)
       IN IF m < 1 \/ m > 12 \/ d < 1 \/ d > 31 THEN {InvalidDate}
          ELSE IF d <= DaysInMonth(y, m) THEN {DateOf(y, m, d)}
          ELSE {InvalidDate,
                IF m = 12 THEN DateOf(y + 1, 1, d - DaysInMonth(y, m))
                ELSE DateOf(y, m + 1, d - DaysInMonth(y, m))}

\* getFullYear(), getMonth() + 1, getDate(): the local calendar day of a UTC
\* midnight, which west of UTC is the day before
localDay(date, offset) == IF offset < 0 THEN DayBefore(date) ELSE date

\* validateISODate(dateStr), date being what new Date(dateStr) gave
validateISODate(dateStr, date, offset) ==
  IF ~matchesDatePattern(dateStr) THEN FALSE
  ELSE IF date.kind = "NaN" THEN FALSE
  ELSE LET local == localDay(date, offset)
       IN /\ local.year = YearOf(dateStr)
          /\ local.month = MonthOf(dateStr)
          /\ local.day = DayOf(dateStr)

\* getDateRange(dateStr): toISOString() of an Invalid Date throws a RangeError
getDateRange(dateStr, date) ==
  IF date.kind = "NaN"
  THEN [kind |-> "throw", error |-> PlainError("RangeError", "Invalid time value")]
  ELSE [kind |-> "return"]

\* getWhoopDay(): today's WHOOP day, formatted by formatDate
getWhoopDay == <<"2", "0", "2", "6", "-", "1", "1", "-", "0", "6">>

\* a string that is truthy: the option was given and is not empty
optionGiven(option) == option # <<>> /\ option[1] # <<>>

\* the test that guards the validation: !!options.date
dateToValidate(option) == optionGiven(option)

\* The action handler of a data command (one type), of summary (recovery,
\* sleep, cycle) and of the default command (the types of its flags), run with
\* the --date option (<<>> when not given, else <<dateStr>>); responses[k] is
\* the API's answer to the request for types[k]. Yields how the process ends
\* and how many API requests it issued.
dateCommand(command, types, option, offset, date, responses) ==
  IF command = "default" /\ Len(types) = 0
  THEN \* program.help() prints the help and exits with code 0
       {[kind |-> "exit", code |-> SUCCESS, error |-> <<>>, lines |-> <<>>, requests |-> 0]}
  ELSE IF dateToValidate(option) /\ ~validateISODate(option[1], date, offset)
  THEN LET error == WhoopError("Invalid date format. Use YYYY-MM-DD", GENERAL_ERROR, <<>>)
       IN {[kind |-> "exit", code |-> handleError(error).code, error |-> <<error>>,
            lines |-> handleError(error).lines, requests |-> 0]}
  ELSE LET range == getDateRange(IF option # <<>> THEN option[1] ELSE getWhoopDay, date)
       IN IF range.kind = "throw"
          THEN {[kind |-> "exit", code |-> handleError(range.error).code,
                 error |-> <<range.error>>, lines |-> handleError(range.error).lines,
                 requests |-> 0]}
          ELSE {IF out.kind = "throw"
                THEN [kind |-> "exit", code |-> handleError(out.error).code,
                      error |-> <<out.error>>, lines |-> handleError(out.error).lines,
                      requests |-> Len(types)]
                ELSE [kind |-> "exit", code |-> SUCCESS, error |-> <<>>, lines |-> <<>>,
                      requests |-> Len(types)] : out \in fetchData(responses)}

\* the values of --date tried
DateTexts ==
  {<<"2", "0", "2", "6", "-", "0", "1", "-", "0", "6">>,
   <<"2", "0", "2", "6", "-", "0", "3", "-", "0", "1">>,
   <<"2", "0", "2", "6", "-", "0", "1", "-", "0", "1">>,
   <<"2", "0", "2", "4", "-", "0", "2", "-", "2", "9">>,
   <<"2", "0", "2", "6", "-", "0", "2", "-", "2", "9">>,
   <<"2", "0", "2", "6", "-", "0", "2", "-", "3", "0">>,
   <<"2", "0", "2", "6", "-", "0", "4", "-", "3", "1">>,
   <<"2", "0", "2", "6", "-", "1", "3", "-", "0", "1">>,
   <<"2", "0", "2", "6", "-", "0", "3", "-", "0", "0">>,
   <<"2", "0", "2", "6", "-", "0", "2", "-", "3", "2">>,
   <<"0", "1", "-", "0", "6", "-", "2", "0", "2", "6">>,
   <<"2", "0", "2", "6", "-", "1", "-", "6">>,
   <<"i", "n", "v", "a", "l", "i", "d">>,
   <<>>}
DateOptions == {<<>>} \cup {<<t>> : t \in DateTexts}

\* hours from UTC: Los Angeles, UTC, Tokyo
Offsets == {0 - 8, 0, 9}

\* command and types
Commands ==
  {<<"sleep", <<"sleep">>>>, <<"summary", <<"recovery", "sleep", "cycle">>>>,
   <<"default", <<>>>>, <<"default", <<"sleep">>>>, <<"default", <<"sleep", "recovery">>>>}

\* the API answers every request, or refuses the first one
DateResponses(n) ==
  {[k \in 1..n |-> Response(200, <<>>, <<>>)],
   [k \in 1..n |-> IF k = 1 THEN Response(401, <<>>, <<>>) ELSE Response(200, <<>>, <<>>)]}

InitDate ==
  /\ file = NoFile
  /\ ever = [d \in Dates |-> <<>>]
  /\ prev = file
  /\ call = [op |-> "start"]
  /\ ret = NoRet
  /\ tokenFile = NoTokenFile

DateRun ==
  /\ call.op = "start"
  /\ \E c \in Commands, option \in DateOptions, offset \in Offsets :
     \E date \in newDate(IF option # <<>> THEN option[1] ELSE getWhoopDay),
        responses \in DateResponses(Len(c[2])) :
     \E out \in dateCommand(c[1], c[2], option, offset, date, responses) :
       /\ call' = [op |-> "command", command |-> c[1], types |-> c[2], date |-> option,
                   offset |-> offset, parsed |-> date, responses |-> responses]
       /\ ret' = out
       /\ UNCHANGED <<file, prev, ever, tokenFile>>

NextDate == DateRun

SpecDate == InitDate /\ [][NextDate]_vars

-----------------------------------------------------------------------------
(* The auth actions and a data command run one after another on the token   *)
(* file, each at a time not before the last one. call.before is the token   *)
(* file the command found and call.after the command that ran before it.    *)

\* minutes; the stored access token expires at minute 10
Times == {0, 5, 6, 60}
StoredTokens == Tokens(1, 1, 10)

\* a grant for an hour, a grant for 3 minutes, a refusal, no answer
TokenResponses == {Grant(2, 2, 60), Grant(3, 3, 3), Refused, NoAnswer}

\* what the callback promise of a login settled with
CallbackOutcomes ==
  {Resolved("c1", "s1"), Rejected("State mismatch - possible CSRF attack"),
   Rejected("OAuth callback timed out")}

\* the API's answer to the data request
AuthResponses == {Response(200, <<>>, <<>>), Response(401, <<>>, <<>>)}

\* how the process ends after an outcome: handleError in the catch block
ExitOf(outcome) ==
  IF outcome.kind = "throw"
  THEN [kind |-> "exit", code |-> handleError(outcome.error).code,
        error |-> <<outcome.error>>, lines |-> handleError(outcome.error).lines]
  ELSE [kind |-> "exit", code |-> SUCCESS, error |-> <<>>, lines |-> <<>>]

InitAuth ==
  /\ file = NoFile
  /\ ever = [d \in Dates |-> <<>>]
  /\ prev = file
  /\ call = [op |-> "start", now |-> 0]
  /\ ret = NoRet
  /\ tokenFile \in {NoTokenFile, GarbledTokenFile, TokenFileOf(StoredTokens)}

\* whoop auth login
AuthLogin ==
  \E now \in Times, credentials \in BOOLEAN, callback \in CallbackOutcomes,
     response \in TokenResponses :
  \E out \in {login(credentials, callback, response, now)} :
     /\ now >= call.now
     /\ call' = [op |-> "auth login", now |-> now, before |-> tokenFile, after |-> call.op,
                 credentials |-> credentials, callback |-> callback, response |-> response]
     /\ ret' = ExitOf(out)
     /\ tokenFile' = fileAfter(tokenFile, out)
     /\ UNCHANGED <<file, prev, ever>>

\* whoop auth logout
AuthLogout ==
  \E now \in Times :
  \E out \in {logout(tokenFile)} :
     /\ now >= call.now
     /\ call' = [op |-> "auth logout", now |-> now, before |-> tokenFile, after |-> call.op]
     /\ ret' = [kind |-> "exit", code |-> SUCCESS, error |-> <<>>, lines |-> <<out.line>>]
     /\ tokenFile' = out.file
     /\ UNCHANGED <<file, prev, ever>>

\* whoop auth status
AuthStatus ==
  \E now \in Times :
  \E out \in {authStatus(tokenFile, now)} :
     /\ now >= call.now
     /\ call' = [op |-> "auth status", now |-> now, before |-> tokenFile, after |-> call.op]
     /\ ret' = [kind |-> "exit", code |-> SUCCESS, error |-> <<>>, lines |-> <<out.line>>,
                value |-> out.value]
     /\ UNCHANGED <<file, prev, ever, tokenFile>>

\* whoop auth refresh
AuthRefresh ==
  \E now \in Times, credentials \in BOOLEAN, response \in TokenResponses :
  \E out \in {refresh(tokenFile, now, credentials, response)} :
     /\ now >= call.now
     /\ call' = [op |-> "auth refresh", now |-> now, before |-> tokenFile, after |-> call.op,
                 credentials |-> credentials, response |-> response]
     /\ ret' = ExitOf(out)
     /\ tokenFile' = fileAfter(tokenFile, out)
     /\ UNCHANGED <<file, prev, ever>>

\* a data command that makes one request, e.g. whoop profile
DataFetch ==
  \E now \in Times, credentials \in BOOLEAN, tokenResponse \in TokenResponses,
     response \in AuthResponses :
  \E out \in {authorizedRequest(tokenFile, now, credentials, tokenResponse, response)} :
     /\ now >= call.now
     /\ call' = [op |-> "fetch", now |-> now, before |-> tokenFile, after |-> call.op,
                 credentials |-> credentials, tokenResponse |-> tokenResponse,
                 response |-> response, valid |-> out.valid, bearer |-> out.bearer]
     /\ ret' = ExitOf(out)
     /\ tokenFile' = fileAfter(tokenFile, out.valid)
     /\ UNCHANGED <<file, prev, ever>>

NextAuth == AuthLogin \/ AuthLogout \/ AuthStatus \/ AuthRefresh \/ DataFetch

SpecAuth == InitAuth /\ [][NextAuth]_vars

-----------------------------------------------------------------------------
(* whoop auth login step by step: login() starts the callback server and    *)
(* waits for its promise; requests arrive, connections end and the timeout  *)
(* fires in any order; once the promise has settled login() goes on to      *)
(* exchange the code or fails. call.handled lists the requests handled, each *)
(* with the status answered and whether the promise was pending before;     *)
(* call.exchanged is the code posted to the token endpoint (<<>>: none).    *)

MaxRequests == 2

\* generateState(): 32 random bytes; a callback carries it only if it comes
\* from the authorization this login started
ExpectedState == "s1"

CallbackRequests ==
  {CallbackRequest("/callback", code, state, error) :
     code \in {<<>>, <<"c1">>}, state \in {<<>>, <<"s1">>, <<"s2">>},
     error \in {<<>>, <<"access_denied">>}}
    \cup {CallbackRequest("/callback", <<"">>, <<"s1">>, <<>>),
          CallbackRequest("/callback", <<"c1">>, <<"s1">>, <<"">>),
          CallbackRequest("/favicon.ico", <<>>, <<>>, <<>>),
          CallbackRequest("/", <<"c1">>, <<"s1">>, <<>>)}

InitLogin ==
  /\ file = NoFile
  /\ ever = [d \in Dates |-> <<>>]
  /\ prev = file
  /\ call = [op |-> "start"]
  /\ ret = NoRet
  /\ tokenFile \in {NoTokenFile, TokenFileOf(StoredTokens)}

\* login() up to await callbackPromise
LoginStart ==
  /\ call.op = "start"
  /\ \E credentials \in BOOLEAN :
       IF credentials
       THEN /\ call' = [op |-> "login", pc |-> "waiting", before |-> tokenFile,
                        expectedState |-> ExpectedState, listener |-> startCallbackServer,
                        handled |-> <<>>, exchanged |-> <<>>]
            /\ ret' = ret
       ELSE /\ call' = [op |-> "login", pc |-> "failed", before |-> tokenFile,
                        expectedState |-> ExpectedState,
                        listener |-> [server |-> "none", timer |-> "none", promise |-> Pending],
                        handled |-> <<>>, exchanged |-> <<>>]
            /\ ret' = ExitOf(Threw(AuthError("WHOOP_CLIENT_ID and WHOOP_CLIENT_SECRET must be set."), <<>>))
  /\ UNCHANGED <<file, prev, ever, tokenFile>>

\* the process runs: process.exit has not been called
Running == call.op = "login" /\ call.pc # "failed"

\* a request reaches the handler: the server listens, or close() was called
\* while a connection was open and the request comes over it
CallbackArrives ==
  /\ Running
  /\ call.listener.server \in {"listening", "closing"}
  /\ Len(call.handled) < MaxRequests
  /\ \E req \in CallbackRequests :
       call' = [call EXCEPT
                  !.listener = onRequest(call.listener, call.expectedState, req),
                  !.handled = Append(@, [req |-> req,
                                         status |-> handleCallback(call.expectedState, req).status,
                                         pending |-> call.listener.promise.status = "pending"])]
  /\ UNCHANGED <<file, prev, ever, tokenFile, ret>>

\* the last open connection ends after close()
ConnectionsEnd ==
  /\ Running
  /\ call.listener.server = "closing"
  /\ call' = [call EXCEPT !.listener = onClose(call.listener)]
  /\ UNCHANGED <<file, prev, ever, tokenFile, ret>>

\* 120 seconds have passed and the timeout was not cleared
Timeout ==
  /\ Running
  /\ call.listener.timer = "armed"
  /\ call' = [call EXCEPT !.listener = onTimeout(call.listener)]
  /\ UNCHANGED <<file, prev, ever, tokenFile, ret>>

\* listen() fails
ListenError ==
  /\ Running
  /\ call.listener.server = "listening" /\ call.handled = <<>>
  /\ call.listener.promise.status = "pending"
  /\ call' = [call EXCEPT !.listener = onError(call.listener)]
  /\ UNCHANGED <<file, prev, ever, tokenFile, ret>>

\* await callbackPromise returns the code, which is posted, or throws
LoginResume ==
  /\ Running /\ call.pc = "waiting"
  /\ call.listener.promise.status # "pending"
  /\ IF call.listener.promise.status = "resolved"
     THEN /\ call' = [call EXCEPT !.pc = "exchanging",
                                  !.exchanged = <<call.listener.promise.value.code>>]
          /\ ret' = ret
     ELSE /\ call' = [call EXCEPT !.pc = "failed"]
          /\ ret' = ExitOf(Threw(call.listener.promise.error, <<>>))
  /\ UNCHANGED <<file, prev, ever, tokenFile>>

\* the token endpoint answers the exchange: the tokens are saved, or login throws
ExchangeAnswer ==
  /\ Running /\ call.pc = "exchanging"
  /\ \E response \in TokenResponses :
     \E out \in {exchangeCode(call.exchanged[1], response, 0)} :
       IF out.kind = "throw"
       THEN /\ call' = [call EXCEPT !.pc = "failed"]
            /\ ret' = ExitOf(out)
            /\ tokenFile' = tokenFile
       ELSE /\ call' = [call EXCEPT !.pc = "done"]
            /\ ret' = ExitOf(out)
            /\ tokenFile' = saveTokens(out.value)
  /\ UNCHANGED <<file, prev, ever>>

NextLogin ==
  LoginStart \/ CallbackArrives \/ ConnectionsEnd \/ Timeout \/ ListenError
    \/ LoginResume \/ ExchangeAnswer

SpecLogin == InitLogin /\ [][NextLogin]_vars

\* a timer that is set and not cleared fires; login() resumes once the promise
\* it awaits has settled
SpecLoginFair == SpecLogin /\ WF_vars(Timeout) /\ WF_vars(LoginResume)

-----------------------------------------------------------------------------
(* fetchData(types, date) for several types: Promise.all starts one request *)
(* per type. Each request runs getValidTokens() up to its first await before *)
(* the next one starts, so every request loads the token file, and posts the *)
(* refresh token it found if the access token has expired, before any answer *)
(* arrives. call.requests[p] is the request for the p-th type: where it is,  *)
(* the tokens it loaded, the refresh token it posted and the bearer it sent. *)

MaxTypes == 3

\* request(...) up to its first await that waits for the network
requestStart(f, now, credentials) ==
  LET sent == getValidTokens(f, now, credentials, NoAnswer)
  IN IF sent.posted # <<>>
     THEN [pc |-> "refreshing", seen |-> loadTokens(f), posted |-> sent.posted,
           bearer |-> <<>>, error |-> <<>>]
     ELSE IF sent.kind = "throw"
     THEN [pc |-> "failed", seen |-> loadTokens(f), posted |-> <<>>,
           bearer |-> <<>>, error |-> <<sent.error>>]
     ELSE [pc |-> "fetching", seen |-> loadTokens(f), posted |-> <<>>,
           bearer |-> <<sent.value.access_token>>, error |-> <<>>]

\* the grants the token endpoint has given to the requests so far
Granted(requests) ==
  Cardinality({p \in DOMAIN requests :
                 requests[p].posted # <<>> /\ requests[p].pc \in {"fetching", "done"}})

\* What the token endpoint may answer to a refresh: fresh tokens, or a
\* refusal, e.g. because the refresh token was used before.
RefreshAnswers(requests) ==
  {Grant(Granted(requests) + 2, Granted(requests) + 2, 60), Refused}

InitFetch ==
  /\ file = NoFile
  /\ ever = [d \in Dates |-> <<>>]
  /\ prev = file
  /\ call = [op |-> "start"]
  /\ ret = NoRet
  /\ tokenFile \in {NoTokenFile, TokenFileOf(StoredTokens)}

\* fetchData up to await Promise.all(...)
FetchDataStart ==
  /\ call.op = "start"
  /\ \E n \in 1..MaxTypes, now \in Times, credentials \in BOOLEAN :
     \E started \in {requestStart(tokenFile, now, credentials)} :
       /\ call' = [op |-> "fetchData", now |-> now, before |-> tokenFile,
                   credentials |-> credentials,
                   requests |-> [p \in 1..n |-> started]]
       /\ ret' = IF started.pc = "failed" THEN ExitOf(Threw(started.error[1], <<>>)) ELSE ret
  /\ UNCHANGED <<file, prev, ever, tokenFile>>

\* fetchData is waiting: no request has failed, none has made the process exit
Waiting == call.op = "fetchData" /\ ret = NoRet

\* the token endpoint answers the refresh of request p
RefreshAnswer ==
  /\ Waiting
  /\ \E p \in DOMAIN call.requests :
       /\ call.requests[p].pc = "refreshing"
       /\ \E response \in RefreshAnswers(call.requests) :
          \E out \in {refreshAccessToken(call.requests[p].seen[1], call.now, call.credentials, response)} :
            IF out.kind = "throw"
            THEN /\ call' = [call EXCEPT !.requests[p].pc = "failed",
                                         !.requests[p].error = <<out.error>>]
                 /\ ret' = ExitOf(out)
                 /\ tokenFile' = tokenFile
            ELSE /\ call' = [call EXCEPT !.requests[p].pc = "fetching",
                                         !.requests[p].bearer = <<out.value.access_token>>]
                 /\ ret' = ret
                 /\ tokenFile' = fileAfter(tokenFile, out)
  /\ UNCHANGED <<file, prev, ever>>

\* the API answers the data request of request p
DataAnswer ==
  /\ Waiting
  /\ \E p \in DOMAIN call.requests :
       /\ call.requests[p].pc = "fetching"
       /\ \E response \in AuthResponses :
          \E out \in {request(response)} :
            IF out.kind = "throw"
            THEN /\ call' = [call EXCEPT !.requests[p].pc = "failed",
                                         !.requests[p].error = <<out.error>>]
                 /\ ret' = ExitOf(out)
            ELSE /\ call' = [call EXCEPT !.requests[p].pc = "done"]
                 /\ ret' = IF \A q \in DOMAIN call.requests \ {p} : call.requests[q].pc = "done"
                           THEN ExitOf(out) ELSE ret
  /\ UNCHANGED <<file, prev, ever, tokenFile>>

NextFetch == FetchDataStart \/ RefreshAnswer \/ DataAnswer

SpecFetch == InitFetch /\ [][NextFetch]_vars

-----------------------------------------------------------------------------
(* What the last operation did *)

Stored == loadHistory(file)
StoredBefore == loadHistory(prev)

Evaluated == call.op = "checkWake" /\ ret.kind = "return"
Candidate == RecordOf(call.sleep)

\* the record the last operation called addToHistory with: <<>> when it did not
Upserted ==
  IF call.op = "seed" /\ ret.line = "ok"
  THEN <<RecordOf(FindPrimary(call.fetched.sleep)[1])>>
  ELSE IF Evaluated /\ ret.value.isAwake THEN <<Candidate>> ELSE <<>>

\* the history checkWake computed its stats from
UsedHistory == IF call.history = <<>> THEN StoredBefore ELSE call.history[1]

Occurrences(history, r) == Cardinality({i \in 1..Len(history) : history[i] = r})
WithDate(history, d) == {i \in 1..Len(history) : history[i].date = d}
Ascending(history) ==
  \A i, j \in 1..Len(history) : i < j => history[i].date < history[j].date

\* the store is full of records that are all later than date d
FullOfLater(history, d) ==
  /\ Len(history) = HISTORY_DAYS
  /\ \A i \in 1..Len(history) : history[i].date > d

-----------------------------------------------------------------------------
(* C1 *)

\* C1 as stated: after addToHistory(r), loadHistory holds r exactly once, fields
\* unchanged, and no other record of r.date, whatever the store held before.
C1_RoundTripAlways ==
  Upserted # <<>> =>
    /\ Occurrences(Stored, Upserted[1]) = 1
    /\ Cardinality(WithDate(Stored, Upserted[1].date)) = 1

\* C1 amended: after addToHistory(r), loadHistory holds r exactly once, fields
\* unchanged, and no other record of r.date, also when a record of r.date existed
\* before; unless the store already held 14 records that are all later than
\* r.date: then r is trimmed away and the history is what it was before.
C1_RoundTrip ==
  Upserted # <<>> =>
    IF FullOfLater(StoredBefore, Upserted[1].date)
    THEN Stored = StoredBefore
    ELSE /\ Occurrences(Stored, Upserted[1]) = 1
         /\ Cardinality(WithDate(Stored, Upserted[1].date)) = 1

\* a full store held another record of r.date, and r replaced it
C1_Witness ==
  /\ Upserted # <<>>
  /\ Len(StoredBefore) = HISTORY_DAYS
  /\ \E i \in WithDate(StoredBefore, Upserted[1].date) : StoredBefore[i] # Upserted[1]
  /\ Occurrences(Stored, Upserted[1]) = 1

-----------------------------------------------------------------------------
(* C2 *)

\* C2: the persisted history holds at most 14 records, no two of the same date,
\* in strictly ascending date order, after any sequence of addToHistory calls.
C2_StoreInvariant ==
  /\ Len(Stored) <= HISTORY_DAYS
  /\ Ascending(Stored)

\* a record of a new date arrived out of order in a full store and the oldest
\* record was trimmed
C2_Witness ==
  /\ Upserted # <<>>
  /\ Len(StoredBefore) = HISTORY_DAYS
  /\ WithDate(StoredBefore, Upserted[1].date) = {}
  /\ Upserted[1].date < StoredBefore[HISTORY_DAYS].date
  /\ Stored[1] # StoredBefore[1]

-----------------------------------------------------------------------------
(* C3 *)

EverDates == {d \in Dates : ever[d] # <<>>}
\* the HISTORY_DAYS largest dates of a set
Latest(dates) == {d \in dates : Cardinality({e \in dates : e > d}) < HISTORY_DAYS}

\* C3: once records of more than 14 distinct dates were upserted, loadHistory
\* returns exactly 14 records: those of the 14 largest dates ever upserted, each
\* the last record upserted for its date, in ascending date order.
C3_CapEnforcement ==
  Cardinality(EverDates) > HISTORY_DAYS =>
    /\ Len(Stored) = HISTORY_DAYS
    /\ {Stored[i].date : i \in 1..Len(Stored)} = Latest(EverDates)
    /\ \A i \in 1..Len(Stored) : <<Stored[i]>> = ever[Stored[i].date]
    /\ Ascending(Stored)

\* every date was upserted, the last one out of order
C3_Witness ==
  /\ EverDates = Dates
  /\ Upserted # <<>>
  /\ Upserted[1].date < StoredBefore[Len(StoredBefore)].date

-----------------------------------------------------------------------------
(* C4 *)

SameMeasures(r, c) ==
  /\ r.endUtcHour = c.endUtcHour
  /\ r.durationHours = c.durationHours
  /\ r.cycles = c.cycles
  /\ r.performance = c.performance
  /\ r.efficiency = c.efficiency

\* C4 as stated: whenever checkWake returns isAwake = true the store holds a
\* record of the candidate's date with the candidate's values, for every prior
\* store.
C4_AcceptedIsStored ==
  (Evaluated /\ ret.value.isAwake) =>
    \E i \in WithDate(Stored, Candidate.date) : SameMeasures(Stored[i], Candidate)

\* C4 amended: whenever checkWake returns isAwake = true the store holds a record
\* of the candidate's date with the candidate's values, with or without a history
\* argument; unless the store already held 14 records that are all later than the
\* candidate's date: then the candidate is trimmed away and the store is left as
\* it was.
C4_AcceptedIsUpserted ==
  (Evaluated /\ ret.value.isAwake) =>
    IF FullOfLater(StoredBefore, Candidate.date)
    THEN Stored = StoredBefore
    ELSE \E i \in WithDate(Stored, Candidate.date) : SameMeasures(Stored[i], Candidate)

\* an accepted evaluation with a history argument replaced the stored record of
\* the candidate's date
C4_Witness ==
  /\ Evaluated /\ ret.value.isAwake
  /\ call.history # <<>>
  /\ \E i \in WithDate(StoredBefore, Candidate.date) : ~SameMeasures(StoredBefore[i], Candidate)
  /\ \E i \in WithDate(Stored, Candidate.date) : SameMeasures(Stored[i], Candidate)

-----------------------------------------------------------------------------
(* C5 *)

\* C5: whenever checkWake returns isAwake = false or throws, the history file is
\* exactly what it was before the call.
C5_RejectedLeavesStore ==
  (call.op = "checkWake" /\ (ret.kind = "throw" \/ ~ret.value.isAwake)) => file = prev

\* a rejected candidate whose date a full store holds with other values
C5_Witness ==
  /\ Evaluated /\ ~ret.value.isAwake
  /\ Len(Stored) = HISTORY_DAYS
  /\ \E i \in WithDate(Stored, Candidate.date) : ~SameMeasures(Stored[i], Candidate)

-----------------------------------------------------------------------------
(* C6 *)

Lacks(sleep, property) ==
  CASE property = "start" -> sleep.start = <<>>
    [] property = "end" -> sleep.end = <<>>
    [] property = "score" -> sleep.score = <<>>
    [] property = "stage_summary" ->
         sleep.score # <<>> /\ sleep.score[1].stage_summary = <<>>
    [] property = "total_in_bed_time_milli" ->
         /\ sleep.score # <<>> /\ sleep.score[1].stage_summary # <<>>
         /\ sleep.score[1].stage_summary[1].total_in_bed_time_milli = <<>>
    [] property = "sleep_cycle_count" ->
         /\ sleep.score # <<>> /\ sleep.score[1].stage_summary # <<>>
         /\ sleep.score[1].stage_summary[1].sleep_cycle_count = <<>>
    [] property = "sleep_performance_percentage" ->
         sleep.score # <<>> /\ sleep.score[1].sleep_performance_percentage = <<>>
    [] property = "sleep_efficiency_percentage" ->
         sleep.score # <<>> /\ sleep.score[1].sleep_efficiency_percentage = <<>>

\* C6: a candidate that lacks any required property makes checkWake throw
\* 'Invalid sleep data'; it never returns a result
C6_LackingIsInvalid ==
  (call.op = "checkWake" /\ \E p \in RequiredProperties : Lacks(call.sleep, p)) =>
    (ret.kind = "throw" /\ ret.error = "Invalid sleep data")

-----------------------------------------------------------------------------
(* C7 *)

RECURSIVE SumOver(_, _)
SumOver(records, field) ==
  IF records = {} THEN 0
  ELSE LET r == CHOOSE r \in records : TRUE
       IN r[field] + SumOver(records \ {r}, field)

LeastOver(records, field) ==
  CHOOSE m \in {r[field] : r \in records} : \A r \in records : m <= r[field]

\* the entries of a history that are not of date d and are among the
\* ROLLING_WINDOW latest of those
LatestOthers(history, d) ==
  LET others == {history[i] : i \in {i \in 1..Len(history) : history[i].date # d}}
  IN {r \in others : Cardinality({q \in others : q.date > r.date}) < ROLLING_WINDOW}

\* the RollingStats of a set of entries
StatsOver(records) ==
  LET n == Cardinality(records)
  IN IF n = 0
     THEN [avgEndHour |-> 140, minEndHour |-> 13, avgDuration |-> 70, minDuration |-> 50,
           avgCycles |-> 40, minCycles |-> 3, avgPerformance |-> 80, minPerformance |-> 70,
           sampleSize |-> 0]
     ELSE [avgEndHour |-> Round(10 * SumOver(records, "endUtcHour"), n),
           minEndHour |-> LeastOver(records, "endUtcHour"),
           avgDuration |-> Round(SumOver(records, "durationHours"), 10 * n),
           minDuration |-> Round(LeastOver(records, "durationHours"), 10),
           avgCycles |-> Round(10 * SumOver(records, "cycles"), n),
           minCycles |-> LeastOver(records, "cycles"),
           avgPerformance |-> Round(SumOver(records, "performance"), n),
           minPerformance |-> LeastOver(records, "performance"),
           sampleSize |-> n]

-----------------------------------------------------------------------------
(* C8 *)

\* C8: when the history holds no entry of another date than the candidate's, the
\* stats are avgEndHour 14, minEndHour 13, avgDuration 7, minDuration 5,
\* avgCycles 4, minCycles 3, avgPerformance 80, minPerformance 70, sampleSize 0
\* (the one decimal values in tenths).
C8_ColdStartDefaults ==
  (Evaluated /\ \A i \in 1..Len(UsedHistory) : UsedHistory[i].date = Candidate.date) =>
    /\ ret.value.stats.avgEndHour = 140
    /\ ret.value.stats.minEndHour = 13
    /\ ret.value.stats.avgDuration = 70
    /\ ret.value.stats.minDuration = 50
    /\ ret.value.stats.avgCycles = 40
    /\ ret.value.stats.minCycles = 3
    /\ ret.value.stats.avgPerformance = 80
    /\ ret.value.stats.minPerformance = 70
    /\ ret.value.stats.sampleSize = 0

\* the store holds one record, of the candidate's own date
C8_Witness ==
  /\ Evaluated /\ call.history = <<>>
  /\ Len(UsedHistory) = 1
  /\ UsedHistory[1].date = Candidate.date
  /\ ret.value.stats.sampleSize = 0

-----------------------------------------------------------------------------
(* C9 *)

CheckNames == <<"end_hour_minimum", "end_hour_typical", "duration", "cycles", "performance">>
CheckWeights == <<3, 2, 2, 2, 1>>

\* C9: every result holds the five checks in their fixed order, each with its
\* full weight when passed and 0 when failed; score is the sum of the points,
\* maxScore is 10 and 0 <= score <= 10.
C9_ChecklistShape ==
  Evaluated =>
    LET checks == ret.value.checks
    IN /\ Len(checks) = 5
       /\ \A i \in 1..5 :
            /\ checks[i].name = CheckNames[i]
            /\ checks[i].points = IF checks[i].passed THEN CheckWeights[i] ELSE 0
       /\ ret.value.score = checks[1].points + checks[2].points + checks[3].points
                            + checks[4].points + checks[5].points
       /\ ret.value.maxScore = 10
       /\ ret.value.score >= 0 /\ ret.value.score <= 10

\* a result with passed and failed checks
C9_Witness ==
  /\ Evaluated
  /\ ~ret.value.checks[2].passed /\ ret.value.checks[3].passed
  /\ ~ret.value.checks[4].passed /\ ret.value.checks[5].passed

-----------------------------------------------------------------------------
(* C10 *)

\* C10: isAwake is true if and only if score >= 6, whatever the sample size and
\* the confidence.
C10_DecisionRule ==
  Evaluated => (ret.value.isAwake <=> ret.value.score >= 6)

\* a candidate accepted with exactly 6 points and no history behind it
C10_Witness ==
  /\ Evaluated
  /\ ret.value.score = 6 /\ ret.value.isAwake
  /\ ret.value.stats.sampleSize = 0

-----------------------------------------------------------------------------
(* C11 *)

\* C11: for every RollingStats, default or computed from a history whose least
\* cycle count is 0, 1, 2 or more, cyclesMin is the larger of minCycles - 1 and 2,
\* and so never below 2.
C11_CyclesMinFloor ==
  Evaluated =>
    /\ ret.value.thresholds.cyclesMin =
         (IF ret.value.stats.minCycles - 1 > 2 THEN ret.value.stats.minCycles - 1 ELSE 2)
    /\ ret.value.thresholds.cyclesMin >= 2

\* stats computed from a history whose least cycle count is 0
C11_Witness ==
  /\ Evaluated
  /\ ret.value.stats.sampleSize > 0
  /\ ret.value.stats.minCycles = 0
  /\ ret.value.thresholds.cyclesMin = 2

-----------------------------------------------------------------------------
(* C12 *)

\* the number of history entries the stats were computed from
EntriesUsed == Cardinality(LatestOthers(UsedHistory, Candidate.date))

\* C12: sampleSize is the number of history entries used after the candidate's
\* date is excluded, and confidence is 'high' exactly when it is 7 or more,
\* 'medium' exactly when it is 3 to 6 and 'low' exactly when it is below 3.
C12_ConfidenceLabel ==
  Evaluated =>
    /\ ret.value.stats.sampleSize = EntriesUsed
    /\ ret.value.confidence = "high" <=> EntriesUsed >= 7
    /\ ret.value.confidence = "medium" <=> (EntriesUsed >= 3 /\ EntriesUsed < 7)
    /\ ret.value.confidence = "low" <=> EntriesUsed < 3

\* a history of 8 entries that holds the candidate's date: 7 are used
C12_Witness ==
  /\ Evaluated /\ call.history # <<>>
  /\ Len(UsedHistory) = 8
  /\ WithDate(UsedHistory, Candidate.date) # {}
  /\ ret.value.stats.sampleSize = 7
  /\ ret.value.confidence = "high"

-----------------------------------------------------------------------------
(* C15 *)

\* the history argument holds 7 entries, none of the candidate's date, that all
\* have the candidate's endUtcHour, durationHours, cycles and performance
BaselineIdentical ==
  /\ Evaluated /\ call.history # <<>>
  /\ Len(UsedHistory) = 7
  /\ \A i \in 1..7 :
       /\ UsedHistory[i].date # Candidate.date
       /\ SameMeasures(UsedHistory[i], Candidate)

AllPassed ==
  /\ \A i \in 1..5 : ret.value.checks[i].passed
  /\ ret.value.score = 10
  /\ ret.value.confidence = "high"
  /\ ret.value.isAwake

-----------------------------------------------------------------------------
(* C16 *)

\* C16: with an empty history the thresholds are endHourMin 11, typical end hour
\* 13, durationMin 4.9, cyclesMin 2 and performanceMin 60, and a candidate below
\* all of them fails all five checks: score 0, isAwake false, confidence 'low'.
C16_ColdStartScoring ==
  (Evaluated /\ UsedHistory = <<>>) =>
    /\ ret.value.thresholds.endHourMin = 11
    /\ ret.value.stats.minEndHour = 13
    /\ ret.value.thresholds.durationMin = 49
    /\ ret.value.thresholds.cyclesMin = 2
    /\ ret.value.thresholds.performanceMin = 60
    /\ ret.value.confidence = "low"
    /\ (/\ Candidate.endUtcHour < 11
        /\ Candidate.durationHours < 490
        /\ Candidate.cycles < 2
        /\ Candidate.performance < 60) =>
         /\ \A i \in 1..5 : ~ret.value.checks[i].passed
         /\ ret.value.score = 0
         /\ ~ret.value.isAwake

\* the instance of the specification: 10 h, 2.02 h, 1 cycle, 40 % on an empty
\* history
C16_Witness ==
  /\ Evaluated /\ UsedHistory = <<>>
  /\ Candidate.endUtcHour = 10 /\ Candidate.durationHours = 202
  /\ Candidate.cycles = 1 /\ Candidate.performance = 40
  /\ ret.value.score = 0 /\ ~ret.value.isAwake

-----------------------------------------------------------------------------
(* C13 *)

\* both processes have written
RaceOver == call.op = "addToHistory" /\ \A p \in Procs : call.procs[p].pc = "done"
LastWriter == ret.by
FirstWriter == CHOOSE p \in Procs : p # ret.by
Holds(history, r) == \E i \in 1..Len(history) : history[i] = r

\* C13: when two processes upsert records of different dates, the final store
\* holds the record of the last writer, and it holds the record of the first
\* writer only if the last writer read the file after the first had written it:
\* otherwise the first writer's record is lost.
C13_LastWriterWins ==
  (RaceOver /\ call.procs[1].record.date # call.procs[2].record.date) =>
    /\ Holds(Stored, call.procs[LastWriter].record)
    /\ Holds(Stored, call.procs[FirstWriter].record)
         <=> Holds(loadHistory(call.procs[LastWriter].seen), call.procs[FirstWriter].record)

\* a final store that holds only the last writer's record: the other is lost
C13_Witness ==
  /\ RaceOver
  /\ call.procs[1].record.date # call.procs[2].record.date
  /\ Holds(Stored, call.procs[LastWriter].record)
  /\ ~Holds(Stored, call.procs[FirstWriter].record)
  /\ Holds(StoredBefore, call.procs[FirstWriter].record)

-----------------------------------------------------------------------------
(* C17 *)

SeedRan == call.op = "wake --seed"

\* the primary session the k-th iteration got: <<>> when the fetch failed or
\* returned no session that is not a nap
PrimaryOf(k) ==
  IF call.responses[k].status = 200 THEN FindPrimary(call.responses[k].records) ELSE <<>>

Parsable(sleep) ==
  /\ sleep.start # <<>> /\ sleep.end # <<>> /\ sleep.score # <<>>
  /\ sleep.score[1].stage_summary # <<>>

\* the iterations that got a session that can be parsed
ValidDays == {k \in 1..SEED_DAYS : PrimaryOf(k) # <<>> /\ Parsable(PrimaryOf(k)[1])}

\* C17: the seeding loop runs through all its days whatever it skips; the record
\* of every session that can be parsed is in the store afterwards, whether
\* checkWake would accept it or not; and the store holds nothing else but what it
\* held before for the dates that got no such session: on an absent file it ends
\* with exactly the valid entries.
C17_SeedingSkips ==
  SeedRan =>
    /\ ret.code = 0
    /\ Len(ret.lines) = SEED_DAYS
    /\ \A k \in ValidDays : Holds(Stored, RecordOf(PrimaryOf(k)[1]))
    /\ \A i \in 1..Len(Stored) :
         \/ \E k \in ValidDays : Stored[i] = RecordOf(PrimaryOf(k)[1])
         \/ /\ Holds(StoredBefore, Stored[i])
            /\ \A k \in ValidDays : RecordOf(PrimaryOf(k)[1]).date # Stored[i].date
    /\ Ascending(Stored)

\* on an absent file the first fetch failed and the second day's session has no
\* score; the other 12 days are in the store, the last one a night that
\* checkWake would not accept
C17_Witness ==
  /\ SeedRan /\ ~prev.exists
  /\ call.responses[1].status = 401
  /\ PrimaryOf(2) # <<>> /\ PrimaryOf(2)[1].score = <<>>
  /\ Len(Stored) = SEED_DAYS - 2
  /\ Stored[Len(Stored)] = RecordOf(Short(SeedDate(SEED_DAYS)))

-----------------------------------------------------------------------------
(* C18 *)

\* C18: every day of a seeding run whose primary session fails to parse gets a
\* line, so that every day that had a primary session is reported as seeded or
\* as failed.
C18_SkipsReported ==
  (SeedRan /\ Len(ret.lines) = SEED_DAYS) =>
    \A k \in 1..SEED_DAYS :
      PrimaryOf(k) # <<>> => ret.lines[k] \in {"ok", "no data"}

-----------------------------------------------------------------------------
(* C19 *)

\* C19: when the history file is absent, unreadable or holds anything but a
\* list of records, loadHistory yields an empty history and checkWake, called
\* without a history argument on a valid candidate, returns a result computed
\* from the default stats: sampleSize 0, confidence 'low'.
C19_FailSoftLoad ==
  (/\ call.op = "checkWake" /\ call.history = <<>>
   /\ prev.content # "list"
   /\ parseSleepRecord(call.sleep).kind = "record") =>
    /\ loadedIsArray(prev) /\ loadHistory(prev) = <<>>
    /\ ret.kind = "return"
    /\ ret.value.stats.sampleSize = 0
    /\ ret.value.confidence = "low"

-----------------------------------------------------------------------------
(* C20 *)

CommandRan == call.op \in {"data", "wake", "wake --seed"}

\* the responses to the command's requests that are not OK
FailedResponses ==
  {call.responses[k] : k \in {k \in 1..Len(call.responses) : call.responses[k].status # 200}}

\* a retry-after header that is a number of seconds, and that number
Seconds(text) == CASE text = <<"6", "0">> -> <<60>> [] text = <<"0">> -> <<0>> [] OTHER -> <<>>

\* C20: a command that gets a response that is not OK ends with the error of
\* such a response: for 401 a WhoopError with exit code 2, for 429 a
\* RateLimitError with exit code 3 that carries the seconds of the retry-after
\* header, for another status a WhoopError with exit code 1 and that status; and
\* the command exits with that exit code, never 0.
C20_ExitCodeOfHttpError ==
  (CommandRan /\ FailedResponses # {}) =>
    \E r \in FailedResponses :
      \E code \in {IF r.status = 401 THEN 2 ELSE IF r.status = 429 THEN 3 ELSE 1} :
        /\ ret.error # <<>>
        /\ ret.error[1].class = (IF r.status = 429 THEN "RateLimitError" ELSE "WhoopError")
        /\ ret.error[1].exitCode = code
        /\ ret.error[1].httpStatus = <<r.status>>
        /\ (r.status = 429 /\ r.retryAfter # <<>> /\ Seconds(r.retryAfter[1]) # <<>>) =>
             ret.error[1].retryAfter = <<[kind |-> "number", value |-> Seconds(r.retryAfter[1])[1]]>>
        /\ ret.code = code
        /\ ret.code # 0

-----------------------------------------------------------------------------
(* C27 *)

\* C27: end_hour_typical passes only if end_hour_minimum passes, a session is
\* classified as awake only if end_hour_minimum passed, and so for every
\* history no duration, cycles and performance make a session awake whose
\* endUtcHour is below stats.minEndHour - 2.
C27_EndHourNecessary ==
  Evaluated =>
    /\ ret.value.checks[2].passed => ret.value.checks[1].passed
    /\ ret.value.isAwake => ret.value.checks[1].passed
    /\ Candidate.endUtcHour < ret.value.stats.minEndHour - 2 => ~ret.value.isAwake

\* a session that ends more than 2 hours before the earliest end hour of a
\* computed baseline and passes duration, cycles and performance: 5 points
C27_Witness ==
  /\ Evaluated
  /\ ret.value.stats.sampleSize > 0
  /\ Candidate.endUtcHour < ret.value.stats.minEndHour - 2
  /\ \A i \in 3..5 : ret.value.checks[i].passed
  /\ ret.value.score = 5
  /\ ~ret.value.isAwake

-----------------------------------------------------------------------------
(* C28 *)

\* the last call evaluated the session of the call before it again
Reran ==
  /\ call.op = "checkWake" /\ call.run >= 2
  /\ call.earlier[1].sleep = call.sleep

\* C28: checkWake called twice in succession with the same candidate on the
\* persisted store returns the second time the WakeCheckResult of the first
\* time, also when the first call upserted the candidate and the upsert trimmed
\* a full store.
C28_NoSelfReinforcement ==
  Reran => ret = call.earlier[1].ret

\* the first of the two calls accepted a candidate of a new day into a full
\* store, which dropped a day the store held, and the second call agreed
C28_Witness ==
  /\ Reran /\ call.run = 2
  /\ call.earlier[1].ret.kind = "return" /\ call.earlier[1].ret.value.isAwake
  /\ Len(Stored) = HISTORY_DAYS
  /\ WithDate(Stored, Candidate.date) # {}
  /\ \E d \in Dates : ever[d] # <<>> /\ WithDate(Stored, d) = {}
  /\ ret.value.isAwake

-----------------------------------------------------------------------------
(* C29 *)

\* C29: in any sequence of checkWake calls on the persisted store, directly
\* after a call that returned isAwake = true the least endUtcHour of the last 7
\* stored records is at least the stats.minEndHour that call used, minus 2.
C29_BoundedDrift ==
  (Evaluated /\ ret.value.isAwake) =>
    Min(SliceLast(Stored, ROLLING_WINDOW), "endUtcHour") >= ret.value.stats.minEndHour - 2

\* the third accepted call in a row, each one ending earlier than the baseline
\* of the call before: the baseline has drifted from 13 h to 9 h
C29_Witness ==
  /\ Evaluated /\ ret.value.isAwake /\ call.run = 3
  /\ call.earlier[1].ret.kind = "return" /\ call.earlier[1].ret.value.isAwake
  /\ ret.value.stats.minEndHour < call.earlier[1].ret.value.stats.minEndHour
  /\ Candidate.endUtcHour = ret.value.stats.minEndHour - 2
  /\ Min(SliceLast(Stored, ROLLING_WINDOW), "endUtcHour") = Candidate.endUtcHour

-----------------------------------------------------------------------------
(* C21 *)

Fetching == call.op = "fetchAll"
Requests == Len(call.sent)

\* a response whose body has no next_token: the property is absent or empty
NoNextToken(response) == response.next_token = <<>> \/ response.next_token[1] = ""

\* the records of the first n pages of the script in request order
RECURSIVE PagesConcat(_, _)
PagesConcat(script, n) ==
  IF n = 0 THEN <<>> ELSE PagesConcat(script, n - 1) \o script[n].records

-----------------------------------------------------------------------------
(* C22 *)

\* dateStr names a day of the calendar in the form YYYY-MM-DD
ValidCalendarDate(dateStr) ==
  /\ matchesDatePattern(dateStr)
  /\ MonthOf(dateStr) \in 1..12
  /\ DayOf(dateStr) \in 1..DaysInMonth(YearOf(dateStr), MonthOf(dateStr))

DateCommandRan == call.op = "command"

\* C22: a data command, summary or the default command run with a --date value
\* that is not a valid YYYY-MM-DD calendar date exits with code 1 and 'Invalid
\* date format' on stderr, and issues no API request.
C22_DateValidatedFirst ==
  (DateCommandRan /\ call.date # <<>> /\ ~ValidCalendarDate(call.date[1])) =>
    /\ ret.code = 1
    /\ ret.error # <<>>
    /\ ret.error[1].message = "Invalid date format. Use YYYY-MM-DD"
    /\ ret.lines = <<"Error">>
    /\ ret.requests = 0

-----------------------------------------------------------------------------
(* C23 *)

FetchRan == call.op = "fetch"

\* what loadTokens gave the last command
StoredTokensBefore == loadTokens(call.before)

\* getValidTokens refreshed: it posted the stored refresh token, saved the
\* tokens built from the answer and returned them
Refreshed ==
  /\ call.valid.kind = "return"
  /\ call.valid.posted = <<StoredTokensBefore[1].refresh_token>>
  /\ call.tokenResponse.kind = "ok"
  /\ call.valid.value = tokensOf(call.tokenResponse.data, call.now)
  /\ loadTokens(tokenFile) = <<call.valid.value>>

\* getValidTokens failed with an AuthError, whose exit code is 2, without a
\* network call, and the command ended with that exit code
NotAuthenticated ==
  /\ call.valid.kind = "throw"
  /\ call.valid.error.class = "AuthError" /\ call.valid.error.exitCode = 2
  /\ call.valid.posted = <<>>
  /\ call.bearer = <<>>
  /\ ret.code = 2
  /\ tokenFile = call.before

\* getValidTokens returned the stored tokens without a network call
ReturnedStored ==
  /\ call.valid = Gave(StoredTokensBefore[1], <<>>, <<>>)
  /\ tokenFile = call.before

-----------------------------------------------------------------------------
(* C24 *)

\* C24: 'auth logout' leaves no stored tokens (hasTokens false, loadTokens
\* null) and does not fail, and changes nothing when no tokens are stored;
\* while no tokens are stored, status reports not authenticated and a data
\* fetch fails with an AuthError and exit code 2 without sending a request;
\* and only a successful login stores tokens again.
C24_Logout ==
  [][ /\ call'.op = "auth logout" =>
           /\ ~hasTokens(tokenFile') /\ loadTokens(tokenFile') = <<>>
           /\ ret'.code = 0
           /\ ~hasTokens(tokenFile) => tokenFile' = tokenFile
      /\ (~hasTokens(tokenFile) /\ call'.op = "auth status") =>
           /\ ~ret'.value.authenticated
           /\ ret'.lines = <<"Not authenticated">>
      /\ (~hasTokens(tokenFile) /\ call'.op = "fetch") =>
           /\ ret'.error # <<>> /\ ret'.error[1].class = "AuthError"
           /\ ret'.code = 2
           /\ call'.bearer = <<>>
      /\ (~hasTokens(tokenFile) /\ hasTokens(tokenFile')) =>
           (call'.op = "auth login" /\ ret'.code = 0)
    ]_vars

\* a data fetch right after a logout that deleted stored tokens: AuthError
C24_Witness ==
  /\ call.op = "fetch" /\ call.after = "auth logout"
  /\ ~hasTokens(call.before)
  /\ ret.code = 2 /\ ret.error[1].class = "AuthError"
  /\ ~hasTokens(tokenFile)

-----------------------------------------------------------------------------
(* C25 *)

\* startCallbackServer was called
Listening == call.op = "login" /\ call.listener.server # "none"
Promise == call.listener.promise

\* a request to /callback that carries a code and the expected state and no error
GoodCallback(req) ==
  /\ req.path = "/callback"
  /\ Present(req.code) /\ Present(req.state) /\ ~Present(req.error)
  /\ req.state[1] = call.expectedState

\* a request to /callback with an error parameter, without code or state, or
\* with another state
BadCallback(req) == req.path = "/callback" /\ ~GoodCallback(req)

-----------------------------------------------------------------------------
(* C26 *)

Settled == Listening /\ Promise.status # "pending"

\* no request settled the promise
NoneSettled ==
  \A k \in 1..Len(call.handled) :
     call.handled[k].status = 404 \/ ~call.handled[k].pending

\* C26: every startCallbackServer call eventually settles, and settles once:
\* the settled promise never changes; when the timeout fires and no request
\* has settled the promise it rejects with a timeout; once settled by a
\* callback or the timeout the server has been closed; a request to a path
\* other than /callback gets 404 and leaves the server and the promise as they
\* were.
C26_SettlesAndCloses ==
  /\ [](Listening => <>Settled)
  /\ [][Settled => call'.listener.promise = call.listener.promise]_vars
  /\ []((Listening /\ call.listener.timer = "fired" /\ NoneSettled) =>
          Promise = Rejected("OAuth callback timed out"))
  /\ []((Settled /\ call.listener.server # "failed") =>
          call.listener.server \in {"closing", "closed"})
  /\ []((Listening /\ Promise.status = "pending") => call.listener.server = "listening")
  /\ [](Listening =>
          \A k \in 1..Len(call.handled) :
             call.handled[k].status = 404 <=> call.handled[k].req.path # "/callback")
  /\ [][(Listening /\ Len(call'.handled) = Len(call.handled) + 1
           /\ call'.handled[Len(call'.handled)].req.path # "/callback") =>
          call'.listener = call.listener]_vars

\* two requests to other paths were answered with 404, then the timeout fired:
\* the promise is rejected with the timeout and the server closed
C26_Witness ==
  /\ Listening /\ Len(call.handled) = 2
  /\ \A k \in 1..2 : call.handled[k].status = 404 /\ call.handled[k].pending
  /\ call.listener.timer = "fired"
  /\ Promise = Rejected("OAuth callback timed out")
  /\ call.listener.server \in {"closing", "closed"}

-----------------------------------------------------------------------------
(* C30 *)

\* fetchData was called while the stored access token was expired
FetchedExpired ==
  /\ call.op = "fetchData"
  /\ loadTokens(call.before) # <<>>
  /\ isTokenExpired(loadTokens(call.before)[1], call.now)

\* the requests that posted the stored refresh token
Refreshers == {p \in DOMAIN call.requests : call.requests[p].posted # <<>>}

\* C30: when fetchData is called for several data types while the stored
\* access token is expired, the requests post the stored refresh token at most
\* once in total, and every data request carries a token obtained from that
\* refresh.
C30_SingleRefresh ==
  FetchedExpired =>
    /\ Cardinality(Refreshers) <= 1
    /\ \A p, q \in DOMAIN call.requests :
         (call.requests[p].bearer # <<>> /\ call.requests[q].bearer # <<>>) =>
            /\ call.requests[p].bearer = call.requests[q].bearer
            /\ call.requests[p].bearer # <<loadTokens(call.before)[1].access_token>>

====
